---- MODULE Spec2Model ----
(***************************************************************************)
(* A model of the LinkedIn post scraper: the scrape-and-persist loop of   *)
(* main.py (search_posts driving process_post_html), the login check of   *)
(* main.py and trial2.py, and the offline cleaner clean-json.py.          *)
(*                                                                         *)
(* Python values are modelled as tagged JSON values [t, v]; a Python      *)
(* string is a sequence of characters, each character a TLA+ string (the  *)
(* two non-ASCII characters of the source are written "bullet" and        *)
(* "rsquo").  The browser is the environment: every await on the page is  *)
(* a nondeterministic choice among the outcomes Playwright can produce.   *)
(***************************************************************************)
EXTENDS Integers, Sequences, FiniteSets, TLC

(***************************************************************************)
(* Bounds of the model.                                                    *)
(***************************************************************************)
\* containers that the results pages of one run show, all keywords together
MaxContainers == 2
\* deviations of the page from its nominal behaviour (a timeout, a missing
\* element, an exception of a browser call) that one run can meet
MaxFaults == 1
\* clicks of the "load more comments" control followed in one post
MaxLoadMore == 1
\* the heights the results page reports are 1..MaxHeight
MaxHeight == 3
\* the values of the parameter max_scrolls are 0..MaxScrollsArg
MaxScrollsArg == 5
\* entries of the cookie list
MaxCookies == 2
\* characters of a string given to clean-json.py
MaxNameLen == 6
\* files of posts/clean
MaxPosts == 2

(***************************************************************************)
(* JSON values.                                                            *)
(***************************************************************************)
JStr(s) == [t |-> "str", v |-> s]
JInt(n) == [t |-> "int", v |-> n]
JNone == [t |-> "none", v |-> 0]
JDict(r) == [t |-> "dict", v |-> r]
JList(q) == [t |-> "list", v |-> q]

\* Python truthiness of a value (if x: ...)
Truthy(x) ==
  CASE x.t = "none" -> FALSE
    [] x.t = "str" -> x.v # <<>>
    [] x.t = "int" -> x.v # 0
    [] x.t = "list" -> x.v # <<>>
    [] x.t = "dict" -> DOMAIN x.v # {}
    [] OTHER -> TRUE

\* dict.get(key), None when the key is absent
Get(d, key) == IF key \in DOMAIN d.v THEN d.v[key] ELSE JNone

(***************************************************************************)
(* Strings.                                                                *)
(***************************************************************************)
Bullet == "bullet"
RSQuo == "rsquo"
WhiteSpace == {" ", "\n", "\t"}
Letters ==
  {"a","b","c","d","e","f","g","h","i","j","k","l","m",
   "n","o","p","q","r","s","t","u","v","w","x","y","z",
   "A","B","C","D","E","F","G","H","I","J","K","L","M",
   "N","O","P","Q","R","S","T","U","V","W","X","Y","Z"}
\* the character class [A-Za-z .\-'rsquo] of clean_name
NameChars == Letters \cup {" ", ".", "-", "'", RSQuo}

RECURSIVE LStrip(_)
LStrip(s) ==
  IF s # <<>> /\ Head(s) \in WhiteSpace THEN LStrip(Tail(s)) ELSE s

RECURSIVE RStrip(_)
RStrip(s) ==
  IF s # <<>> /\ s[Len(s)] \in WhiteSpace
  THEN RStrip(SubSeq(s, 1, Len(s) - 1))
  ELSE s

\* str.strip()
Strip(s) == RStrip(LStrip(s))

\* re.sub(r'\s+', ' ', s): every maximal run of whitespace becomes one space
RECURSIVE CollapseWs(_)
CollapseWs(s) ==
  IF s = <<>> THEN <<>>
  ELSE IF Head(s) \in WhiteSpace
       THEN <<" ">> \o CollapseWs(LStrip(s))
       ELSE <<Head(s)>> \o CollapseWs(Tail(s))

\* whether sep occurs in s at position i
OccursAt(s, sep, i) ==
  /\ i + Len(sep) - 1 <= Len(s)
  /\ SubSeq(s, i, i + Len(sep) - 1) = sep

\* s.split(sep)[0] for a set of separators: what precedes the first
\* occurrence of any of them, the whole string when none occurs
BeforeSep(s, seps) ==
  LET hits == {i \in 1..Len(s) : \E sep \in seps : OccursAt(s, sep, i)}
  IN IF hits = {} THEN s
     ELSE SubSeq(s, 1, (CHOOSE i \in hits : \A k \in hits : i <= k) - 1)

\* whether the substring sub occurs in s (the Python test  sub in s)
Contains(s, sub) == \E i \in 1..(Len(s) + 1) : OccursAt(s, sub, i)

(***************************************************************************)
(* clean-json.py                                                           *)
(***************************************************************************)
\* the lengths k for which ^([A-Za-z .\-'rsquo]+)\1 matches with a group of
\* k characters
DoubledPrefixes(s) ==
  {k \in 1..(Len(s) \div 2) :
     /\ \A i \in 1..k : s[i] \in NameChars
     /\ SubSeq(s, k + 1, 2 * k) = SubSeq(s, 1, k)}

\* faulty variant: the group of the pattern is not greedy, the match found is
\* the shortest one
clean_name_Shortest(name) ==
  LET n1 == Strip(CollapseWs(name))
      ks == DoubledPrefixes(n1)
      n2 == IF ks = {} THEN n1
            ELSE Strip(SubSeq(n1, 1, CHOOSE k \in ks : \A m \in ks : k <= m))
  IN Strip(BeforeSep(n2, {<<" ", Bullet, " ">>, <<"|">>}))

clean_name(name) ==
  LET n1 == Strip(CollapseWs(name))
      ks == DoubledPrefixes(n1)
      \* the group is greedy: the match found is the longest one
      n2 == IF ks = {} THEN n1
            ELSE Strip(SubSeq(n1, 1, CHOOSE k \in ks : \A m \in ks : m <= k))
  IN Strip(BeforeSep(n2, {<<" ", Bullet, " ">>, <<"|">>}))

clean_string(s) == Strip(CollapseWs(s))

RECURSIVE clean_dict(_)
clean_dict(d) ==
  IF d.t = "dict"
  THEN JDict([k \in DOMAIN d.v |->
                IF k = "name" /\ d.v[k].t = "str"
                THEN JStr(clean_name(d.v[k].v))
                ELSE IF d.v[k].t = "str"
                THEN JStr(clean_string(d.v[k].v))
                ELSE IF d.v[k].t \in {"dict", "list"}
                THEN clean_dict(d.v[k])
                ELSE d.v[k]])
  ELSE IF d.t = "list"
  THEN JList([i \in DOMAIN d.v |-> clean_dict(d.v[i])])
  ELSE d

(***************************************************************************)
(* The pages the scraper reads.  A results page shows containers; the      *)
(* outerHTML of a container, hence its hash (container_id), determines     *)
(* what its DOM, its reactions modal and its comment list hold.            *)
(***************************************************************************)
Keywords == << <<"a", "i">>, <<"m", "l">> >>
HtmlIds == {1, 2}

\* what the actor block and the text of container h hold
PostDom(h) ==
  IF h = 1
  THEN [href |-> <<"u", "1", "?", "t">>, name |-> <<"A", "l", "A", "l">>,
        description |-> <<"c", "e", "o">>, src |-> <<"i", "1">>,
        sub_description |-> <<"1", "h", " ">>, globe |-> TRUE,
        text |-> <<" ", "h", "i", "\n">>]
  ELSE [href |-> <<"u", "2">>, name |-> <<"E", "d">>,
        description |-> <<"c", "t", "o">>, src |-> <<"i", "2">>,
        sub_description |-> <<"2", "d">>, globe |-> FALSE,
        text |-> <<"y", "o">>]

\* the rows of the reactions modal of container h, once scrolled to the end
Profiles(h) ==
  IF h = 1
  THEN << [link |-> TRUE, href |-> <<"p", "1", "?", "x">>,
           title |-> <<"B", "o", "V", "i", "e", "w">>, has_title |-> TRUE,
           subtitle |-> <<" ", "d", "e", "v">>, has_subtitle |-> TRUE] >>
  ELSE << [link |-> TRUE, href |-> <<"p", "2">>,
           title |-> <<"C", "y">>, has_title |-> TRUE,
           subtitle |-> <<>>, has_subtitle |-> FALSE],
          [link |-> FALSE, href |-> <<>>,
           title |-> <<"D", "i">>, has_title |-> TRUE,
           subtitle |-> <<>>, has_subtitle |-> FALSE] >>

\* whether container h shows a comments count control, and its text
HasCommentsButton(h) == h = 1
CommentsButtonText(h) == <<"2", " ", "c">>

\* A comment entity of the page: id is the identity of the DOM element,
\* reactions is the text of its reactions count (has_reactions: whether the
\* element exists), alts the alt texts of its reaction icons, replies the
\* reply entities nested in its replies list.
Reply1 ==
  [id |-> 3, name |-> <<"F", "i">>, href |-> <<"p", "3">>,
   subtitle |-> <<"q", "a">>, src |-> <<"i", "3">>,
   content |-> <<"o", "k">>, time |-> <<"1", "m">>,
   has_reactions |-> FALSE, reactions |-> <<>>, alts |-> <<>>,
   replies |-> <<>>]
Comment1 ==
  [id |-> 1, name |-> <<"G", "o">>, href |-> <<"p", "4">>,
   subtitle |-> <<"p", "m">>, src |-> <<"i", "4">>,
   content |-> <<" ", "n", "i", "c", "e">>, time |-> <<"2", "m", " ">>,
   has_reactions |-> TRUE, reactions |-> <<"3">>, alts |-> << <<"L">> >>,
   replies |-> <<Reply1>>]
\* a reply entity that sits inside the replies list of another reply
Reply3 ==
  [id |-> 5, name |-> <<"J", "o">>, href |-> <<"p", "7">>,
   subtitle |-> <<"h", "r">>, src |-> <<"i", "7">>,
   content |-> <<"y", "e", "s">>, time |-> <<"5", "m">>,
   has_reactions |-> FALSE, reactions |-> <<>>, alts |-> <<>>,
   replies |-> <<>>]
Reply2 ==
  [id |-> 4, name |-> <<"I", "v">>, href |-> <<"p", "6">>,
   subtitle |-> <<"c", "e">>, src |-> <<"i", "6">>,
   content |-> <<"h", "m">>, time |-> <<"4", "m">>,
   has_reactions |-> FALSE, reactions |-> <<>>, alts |-> <<>>,
   replies |-> <<Reply3>>]
Comment2 ==
  [id |-> 2, name |-> <<"H", "u">>, href |-> <<"p", "5">>,
   subtitle |-> <<"v", "p">>, src |-> <<"i", "5">>,
   content |-> <<"w", "o", "w">>, time |-> <<"3", "m">>,
   has_reactions |-> TRUE, reactions |-> <<"1">>, alts |-> <<>>,
   replies |-> <<Reply2>>]

\* the top-level comment entities of container h after `loads` clicks of
\* the "load more comments" control
DomComments(h, loads) ==
  IF h # 1 THEN <<>>
  ELSE IF loads = 0 THEN <<Comment1>> ELSE <<Comment1, Comment2>>

\* identities of the comment entities a page can show; 0 is none of them
CommentIds == {1, 2, 3, 4, 5}

(***************************************************************************)
(* main.py, process_post_html: what the extraction computes from the page. *)
(***************************************************************************)
Digits == {"0", "1", "2", "3", "4", "5", "6", "7", "8", "9"}
DigitVal(c) ==
  CASE c = "0" -> 0 [] c = "1" -> 1 [] c = "2" -> 2 [] c = "3" -> 3
    [] c = "4" -> 4 [] c = "5" -> 5 [] c = "6" -> 6 [] c = "7" -> 7
    [] c = "8" -> 8 [] c = "9" -> 9

\* ''.join(filter(str.isdigit, s))
DigitsOf(s) == SelectSeq(s, LAMBDA c : c \in Digits)

\* int(ds) of a non-empty string of digits
RECURSIVE IntOf(_)
IntOf(ds) ==
  IF ds = <<>> THEN 0
  ELSE 10 * IntOf(SubSeq(ds, 1, Len(ds) - 1)) + DigitVal(ds[Len(ds)])

\* int(''.join(filter(str.isdigit, s))) if s else 0  raises ValueError when
\* s is not empty and holds no digit
IntRaises(s) == s # <<>> /\ DigitsOf(s) = <<>>

RECURSIVE Flatten(_)
Flatten(ss) ==
  IF ss = <<>> THEN <<>> ELSE Head(ss) \o Flatten(Tail(ss))

\* the liker rows read from the modal of container h; the extraction of
\* row `bad` raises and the row is skipped (0: no row raises)
ExtractLikers(h, bad) ==
  LET rows == Profiles(h)
      row(i) ==
        LET r == rows[i]
            name == IF r.has_title THEN r.title ELSE <<>>
            title == IF r.has_subtitle THEN r.subtitle ELSE <<>>
            view == <<"V", "i", "e", "w">>
            clean == IF Contains(name, view)
                     THEN Strip(BeforeSep(name, {view}))
                     ELSE Strip(name)
        IN IF i = bad \/ ~r.link \/ r.href = <<>> THEN <<>>
           ELSE << JDict([url |-> JStr(BeforeSep(r.href, {<<"?">>})),
                          name |-> JStr(clean),
                          title |-> JStr(Strip(title))]) >>
  IN Flatten([i \in 1..Len(rows) |-> row(i)])

\* every reply entity below comment entity c, in document order: what the
\* descendant locator  .comments-comment-entity--reply  matches
RECURSIVE ReplyEntities(_)
ReplyEntities(c) ==
  Flatten([i \in 1..Len(c.replies) |->
             <<c.replies[i]>> \o ReplyEntities(c.replies[i])])

\* lines 403-463: the first pass over the main comments; the extraction of
\* the entity whose id is `bad` raises
FirstPassReply(r) ==
  JDict([author |-> JDict([name |-> JStr(r.name),
                           profile_url |-> JStr(r.href),
                           title |-> JStr(r.subtitle),
                           image_url |-> JStr(r.src)]),
         content |-> JStr(r.content),
         timestamp |-> JStr(r.time)])

FirstPassComment(c, bad) ==
  LET rs == ReplyEntities(c)
      replies == Flatten([i \in 1..Len(rs) |->
                            IF rs[i].id = bad THEN <<>>
                            ELSE <<FirstPassReply(rs[i])>>])
  IN IF c.id = bad \/ ~c.has_reactions \/ IntRaises(c.reactions) THEN <<>>
     ELSE << JDict([author |-> JDict([name |-> JStr(c.name),
                                      profile_url |-> JStr(c.href),
                                      title |-> JStr(c.subtitle),
                                      image_url |-> JStr(c.src)]),
                    content |-> JStr(Strip(c.content)),
                    timestamp |-> JStr(Strip(c.time)),
                    reactions_count |->
                      JInt(IF c.reactions = <<>> THEN 0
                           ELSE IntOf(DigitsOf(c.reactions))),
                    replies |-> JList(replies)]) >>

FirstPass(dom, bad) ==
  Flatten([i \in 1..Len(dom) |-> FirstPassComment(dom[i], bad)])

\* lines 481-545: extract_comment_data; the extraction of the entity whose id
\* is `bad` raises, which the function turns into None
RECURSIVE extract_comment_data(_, _)
extract_comment_data(c, bad) ==
  LET rs == ReplyEntities(c)
      count == IF c.has_reactions /\ DigitsOf(c.reactions) # <<>>
               THEN IntOf(DigitsOf(c.reactions)) ELSE 0
      types == IF c.has_reactions
               THEN SelectSeq(c.alts, LAMBDA a : a # <<>>) ELSE <<>>
  IN IF c.id = bad THEN JNone
     ELSE JDict([author |-> JDict([name |-> JStr(c.name),
                                   profile_url |-> JStr(c.href),
                                   title |-> JStr(c.subtitle)]),
                 content |-> JStr(c.content),
                 timestamp |-> JStr(c.time),
                 reactions |->
                   JDict([count |-> JInt(count),
                          types |-> JList([i \in 1..Len(types) |->
                                             JStr(types[i])])]),
                 replies |->
                   JList([i \in 1..Len(rs) |->
                            extract_comment_data(rs[i], bad)])])

\* lines 547-557: the second pass over the top-level comment entities
SecondPass(dom, bad) ==
  Flatten([i \in 1..Len(dom) |->
             LET comment_data == extract_comment_data(dom[i], bad)
             IN IF Truthy(comment_data) THEN <<comment_data>> ELSE <<>>])

\* lines 299-319: the post URL, the author block and the metadata read from
\* the container; has_href: whether the actor link carries an href
ExtractPostUrl(h, has_href) ==
  IF has_href /\ PostDom(h).href # <<>>
  THEN JStr(BeforeSep(PostDom(h).href, {<<"?">>}))
  ELSE JNone

ExtractAuthor(h, post_url) ==
  JDict([name |-> JStr(PostDom(h).name),
         profile_url |-> post_url,
         title |-> JStr(PostDom(h).description),
         image_url |-> JStr(PostDom(h).src)])

ExtractMetadata(h, post_url) ==
  JDict([post_url |-> post_url,
         timestamp |-> JStr(PostDom(h).sub_description),
         visibility |-> JStr(IF PostDom(h).globe
                             THEN <<"p", "u", "b", "l", "i", "c">>
                             ELSE <<"p", "r", "i", "v", "a", "t", "e">>)])

\* faulty variant: both totals are taken from the liker list
MakePostData_LikerTotals(post_number, keyword, author, content, metadata, ls, cs) ==
  JDict([post_number |-> JInt(post_number),
         keyword |-> JStr(keyword),
         author |-> author,
         content |-> JStr(Strip(content)),
         metadata |-> metadata,
         engagement |-> JDict([total_likers |-> JInt(Len(ls)),
                               total_comments |-> JInt(Len(ls)),
                               likers |-> JList(ls),
                               comments |-> JList(cs)])])

\* lines 571-584: the record of one post
MakePostData(post_number, keyword, author, content, metadata, ls, cs) ==
  JDict([post_number |-> JInt(post_number),
         keyword |-> JStr(keyword),
         author |-> author,
         content |-> JStr(Strip(content)),
         metadata |-> metadata,
         engagement |-> JDict([total_likers |-> JInt(Len(ls)),
                               total_comments |-> JInt(Len(cs)),
                               likers |-> JList(ls),
                               comments |-> JList(cs)])])

(***************************************************************************)
(* State.                                                                  *)
(***************************************************************************)
VARIABLES
  \* LinkedInAutomation
  is_logged_in,
  \* search_posts: the position in the code and the locals
  pc, kw, total_containers, j, container_id, processed_containers,
  batch_urls, collected_urls, ret,
  \* process_post_html: the locals and the value it returns
  likers, comments, author_info, post_metadata, post_content, post_data,
  raising, loads,
  \* the browser: the reactions modal is "closed", "open", or "stuck" (open,
  \* and a close_modal has already failed to close it)
  modal,
  \* the directories posts/json and posts/clean: file name -> content
  files, clean_files,
  \* deviations of the page met so far, containers shown so far
  faults, shown,
  \* the page: whether the "load more comments" control stays visible after
  \* every click
  sticky,
  \* history of the current keyword pass: the container_id of every
  \* container read, the containers dispatched to process_post_html, the
  \* loop indexes started
  feed, dispatched, visited,
  \* history of the run: the keywords started, the file names of the posts
  \* for which process_post_html returned a record, the post URLs of these
  \* records
  kw_visited, succeeded, returned_urls,
  \* history of the current process_post_html call
  clicked, comments_clicked, close_calls, close_failed, pp_faults,
  \* the login check: which program runs it ("main": verify_login of
  \* main.py, "trial2": check_login_status_playwright of trial2.py), the
  \* position in its code, the value it returned, its locals
  impl, lpc, lret, current_url, wait_time, elapsed,
  \* the browser: the address of the page
  url,
  \* the debug files save_html was called for
  saved,
  \* history of the login check: what happened, the number of polls of the
  \* address in the challenge wait, the number of polls of the puzzle in the
  \* puzzle wait
  events, polls, puzzle_polls,
  \* the scroll loop of search_posts: the position in its code, its locals,
  \* and its history (loop bodies started, whether a body saw the height
  \* unchanged at the scroll and at the re-check, how the loop ended)
  spc, max_attempts, scroll_attempts, last_height, new_height, final_height,
  iterations, stable, exit_by,
  \* the cookie loader: which program runs it, the position in its code, the
  \* source of the cookies, the value it returned, the cookies of the browser
  \* context, and the arguments of the add_cookies calls made
  cimpl, cpc, cookie_src, cret, jar, add_calls,
  \* a run of main (main.py) or main_playwright (trial2.py): the position in
  \* its code, the browser, the context and the page ("none", "open" or
  \* "closed"), the calls that succeeded so far, the close calls made, and
  \* whether an exception left the function
  mpc, browser, context, page, steps, closes, escaped,
  \* clean-json.py: the position ("off", "start", "once", "twice"), the
  \* record read, the record after clean_dict, and the record after
  \* clean_dict is applied to that one
  kpc, raw, cleaned, recleaned,
  \* streamlit_knowledge_graph.py: the position in build_graph ("off",
  \* "start", "loop", "done", or "raised" when an exception left it), the
  \* three checkboxes, the files of posts/clean not read yet, the record of
  \* the file read last, the graph, and the number of files read
  gpc, show_likes, show_comments, show_replies, unread, data_read, G, n_read

loopVars == <<kw, total_containers, j, container_id, processed_containers,
              batch_urls, collected_urls, ret>>
ppLocals == <<likers, comments, author_info, post_metadata, post_content,
              raising, loads>>
fsVars == <<files, clean_files>>
passHist == <<feed, dispatched, visited, kw_visited>>
retHist == <<succeeded, returned_urls>>
loopHist == <<passHist, retHist>>
ppHist == <<clicked, comments_clicked, close_calls, close_failed, pp_faults>>
scrapeVars == <<pc, loopVars, ppLocals, post_data, modal,
                fsVars, faults, shown, sticky, loopHist, ppHist>>
loginVars == <<impl, lpc, lret, current_url, wait_time, elapsed, url, saved,
               events, polls, puzzle_polls>>
scrollVars == <<spc, max_attempts, scroll_attempts, last_height, new_height,
                final_height, iterations, stable, exit_by>>
cookieVars == <<cimpl, cpc, cookie_src, cret, jar, add_calls>>
\* the variables of the other functions
runVars == <<mpc, browser, context, page, steps, closes, escaped>>
cleanVars == <<kpc, raw, cleaned, recleaned>>
\* the variables of the programs that work on the files written
graphVars == <<gpc, show_likes, show_comments, show_replies, unread, data_read,
               G,
               n_read>>
toolVars == <<cleanVars, graphVars>>
extraVars == <<scrollVars, cookieVars, runVars, toolVars>>
\* what the scrape leaves alone
sessionVars == <<is_logged_in, loginVars, extraVars, sticky>>
scrapeRest == <<loopVars, ppLocals, post_data, modal, fsVars, faults, shown,
                sticky, loopHist, ppHist>>
loginRest == <<impl, lret, current_url, wait_time, elapsed, url, saved,
               events, polls, puzzle_polls>>
cookieRest == <<cimpl, cookie_src, cret, jar, add_calls>>
\* what the scroll loop leaves alone
notScroll == <<is_logged_in, scrapeVars, loginVars, cookieVars, runVars,
               toolVars>>
\* what the cookie loader leaves alone
notCookies == <<is_logged_in, scrapeVars, loginVars, scrollVars, runVars,
                toolVars>>

vars == <<is_logged_in, scrapeVars, loginVars, extraVars>>

\* the name posts/json/post_<keyword>_<post_number>_profiles.json
FileName(keyword, post_number) == <<keyword, post_number>>

NoLocals ==
  /\ likers = <<>> /\ comments = <<>>
  /\ author_info = JNone /\ post_metadata = JNone /\ post_content = <<>>
  /\ raising = FALSE /\ loads = 0

ResetLocals ==
  /\ likers' = <<>> /\ comments' = <<>>
  /\ author_info' = JNone /\ post_metadata' = JNone /\ post_content' = <<>>
  /\ raising' = FALSE /\ loads' = 0

\* no login check is running
LoginOff ==
  /\ impl = "main" /\ lpc = "off" /\ lret = "none"
  /\ current_url = <<>> /\ url = <<>> /\ wait_time = 0 /\ elapsed = 0
  /\ saved = {} /\ events = {} /\ polls = 0 /\ puzzle_polls = 0

CleanOff ==
  /\ kpc = "off" /\ raw = JNone /\ cleaned = JNone /\ recleaned = JNone

\* line 55: nx.MultiDiGraph(); nodes: profile URL -> group, edges: in the
\* order of their insertion
EmptyGraph == [nodes |-> <<>>, edges |-> <<>>]

GraphOff ==
  /\ gpc = "off" /\ show_likes = TRUE /\ show_comments = TRUE
  /\ show_replies = TRUE /\ unread = 0 /\ data_read = JNone /\ G = EmptyGraph
  /\ n_read = 0

ToolsOff == CleanOff /\ GraphOff

ScrapeInit ==
  /\ kw = 0 /\ total_containers = -1 /\ j = 0 /\ container_id = 0
  /\ processed_containers = {} /\ batch_urls = <<>> /\ collected_urls = <<>>
  /\ ret = JNone
  /\ NoLocals /\ post_data = JNone
  /\ modal = "closed"
  /\ files = <<>> /\ clean_files = <<>>
  /\ faults = 0 /\ shown = 0
  /\ feed = <<>> /\ dispatched = <<>> /\ visited = {} /\ succeeded = {}
  /\ kw_visited = {} /\ returned_urls = {}
  /\ clicked = FALSE /\ comments_clicked = FALSE /\ close_calls = 0
  /\ close_failed = FALSE /\ pp_faults = {}

\* no scroll loop is running
ScrollOff ==
  /\ spc = "off" /\ max_attempts = 0 /\ scroll_attempts = 0
  /\ last_height = 0 /\ new_height = 0 /\ final_height = 0
  /\ iterations = 0 /\ stable = FALSE /\ exit_by = "none"

\* no cookie loader is running
CookiesOff ==
  /\ cimpl = "main" /\ cpc = "off" /\ cookie_src = [kind |-> "missing"]
  /\ cret = "none" /\ jar = <<>> /\ add_calls = <<>>

\* no run of main is under way
RunOff ==
  /\ mpc = "off" /\ browser = "none" /\ context = "none" /\ page = "none"
  /\ steps = <<>> /\ closes = <<>> /\ escaped = FALSE

Init ==
  /\ is_logged_in \in BOOLEAN
  /\ pc = "start"
  /\ ScrapeInit
  /\ ToolsOff
  /\ sticky \in BOOLEAN
  /\ LoginOff
  /\ ScrollOff
  /\ CookiesOff
  /\ RunOff

\* one more deviation of the page
Fault == faults < MaxFaults /\ faults' = faults + 1

(***************************************************************************)
(* main.py, search_posts                                                   *)
(***************************************************************************)
\* lines 652-658: the guard on the session, then the first keyword
SearchPosts_Begin ==
  /\ pc = "start"
  /\ IF ~is_logged_in
     THEN pc' = "done" /\ ret' = JList(<<>>) /\ UNCHANGED <<kw, collected_urls>>
     ELSE pc' = "keyword" /\ kw' = 1 /\ collected_urls' = <<>> /\ ret' = ret
  /\ UNCHANGED <<sessionVars, shown, total_containers, j, container_id,
                 processed_containers, batch_urls, ppLocals, post_data,
                 modal, fsVars, faults, loopHist, ppHist>>

\* the for loop over the keywords moves on (line 660)
AdvanceKeyword ==
  IF kw < Len(Keywords)
  THEN kw' = kw + 1 /\ pc' = "keyword"
  ELSE kw' = kw /\ pc' = "finish"

\* lines 664-731: the results page is loaded, scrolled to its bottom and its
\* containers are counted; any of these browser calls can raise
Keyword_Navigate ==
  /\ pc = "keyword"
  /\ kw_visited' = kw_visited \cup {kw}
  /\ feed' = <<>> /\ dispatched' = <<>> /\ visited' = {}
  /\ \/ /\ Fault
        /\ pc' = "kw_except"
        /\ total_containers' = -1
        /\ UNCHANGED <<j, processed_containers, batch_urls, shown>>
     \/ /\ faults' = faults
        /\ \E n \in 0..(MaxContainers - shown) :
             total_containers' = n /\ shown' = shown + n
        /\ processed_containers' = {} /\ batch_urls' = <<>> /\ j' = 0
        /\ pc' = "loop"
  /\ UNCHANGED <<sessionVars, kw, container_id, collected_urls, ret,
                 ppLocals, post_data, modal, fsVars, retHist, ppHist>>

\* lines 776-777: the handler of the keyword's try block
Keyword_Except ==
  /\ pc = "kw_except"
  /\ AdvanceKeyword
  /\ UNCHANGED <<sessionVars, shown, total_containers, j, container_id,
                 processed_containers, batch_urls, collected_urls, ret,
                 ppLocals, post_data, modal, fsVars, faults, loopHist,
                 ppHist>>

\* lines 734-739 and 773: the next container of the pass, or the end of it
Loop ==
  /\ pc = "loop"
  /\ IF j < total_containers
     THEN /\ pc' = "container"
          /\ visited' = visited \cup {j}
          /\ UNCHANGED <<kw, collected_urls>>
     ELSE /\ collected_urls' = collected_urls \o batch_urls
          /\ AdvanceKeyword
          /\ visited' = visited
  /\ UNCHANGED <<sessionVars, shown, total_containers, j, container_id,
                 processed_containers, batch_urls, ret, ppLocals, post_data,
                 modal, fsVars, faults, feed, dispatched, kw_visited,
                 retHist, ppHist>>

\* the loop body is left for the next index: continue, or its end
NextContainer == j' = j + 1 /\ pc' = "loop"

\* faulty variant: the container's try block has no handler: the exception reaches
\* the handler of the keyword
ContainerExcept_Propagates == j' = j /\ pc' = "kw_except"

\* lines 766-768: the handler of the container's try block
ContainerExcept == NextContainer

\* lines 740-752: the container is read and hashed, looked up among the
\* processed ones and, when visible, handed to process_post_html
Container_Read ==
  /\ pc = "container"
  /\ \E h \in HtmlIds :
       /\ feed' = Append(feed, h)
       /\ \/ /\ Fault
             /\ ContainerExcept
             /\ UNCHANGED <<container_id, dispatched, post_data>>
          \/ /\ h \in processed_containers
             /\ faults' = faults
             /\ container_id' = h
             /\ NextContainer
             /\ UNCHANGED <<dispatched, post_data>>
          \/ /\ h \notin processed_containers
             /\ Fault
             /\ container_id' = h
             /\ NextContainer
             /\ UNCHANGED <<dispatched, post_data>>
          \/ /\ h \notin processed_containers
             /\ faults' = faults
             /\ container_id' = h
             /\ dispatched' = Append(dispatched, [j |-> j, id |-> h])
             /\ post_data' = JNone
             /\ j' = j
             /\ pc' = "pp_start"
  /\ UNCHANGED <<sessionVars, shown, kw, total_containers, processed_containers,
                 batch_urls, collected_urls, ret, ppLocals, modal, fsVars,
                 visited, kw_visited, retHist, ppHist>>

\* lines 760-761: the URL kept for the record process_post_html returned
RecordUrl(urls, data) ==
  IF Truthy(data) /\ Truthy(Get(data, "post_url"))
  THEN Append(urls, data.v["post_url"].v)
  ELSE urls

\* lines 754-764: the container is highlighted, the URL of its record kept
\* and its hash added to the processed ones (the history of the call ends)
Container_After ==
  /\ pc = "after_pp"
  /\ \/ /\ Fault
        /\ ContainerExcept
        /\ UNCHANGED <<batch_urls, processed_containers>>
     \/ /\ faults' = faults
        /\ batch_urls' = RecordUrl(batch_urls, post_data)
        /\ processed_containers' = processed_containers \cup {container_id}
        /\ NextContainer
  /\ clicked' = FALSE /\ comments_clicked' = FALSE /\ close_calls' = 0
  /\ close_failed' = FALSE /\ pp_faults' = {}
  /\ UNCHANGED <<sessionVars, shown, kw, total_containers, container_id,
                 collected_urls, ret, ppLocals, post_data, modal, fsVars,
                 loopHist>>

Range(q) == {q[i] : i \in DOMAIN q}

\* the lists that hold every element of S once: what list(set(...)) can be
Orderings(S) ==
  {q \in [1..Cardinality(S) -> S] : Range(q) = S}

\* lines 779-782: duplicates are removed and the list is returned
Finish ==
  /\ pc = "finish"
  /\ \E q \in Orderings(Range(collected_urls)) :
       ret' = JList([i \in DOMAIN q |-> JStr(q[i])])
  /\ pc' = "done"
  /\ UNCHANGED <<sessionVars, shown, kw, total_containers, j, container_id,
                 processed_containers, batch_urls, collected_urls, ppLocals,
                 post_data, modal, fsVars, faults, loopHist, ppHist>>

(***************************************************************************)
(* main.py, process_post_html(html, post_number = j + 1, keyword)          *)
(***************************************************************************)
\* lines 613-639: close_modal clicks the close or the dismiss control and
\* waits for the modal to hide; a missing control, a failed click and a
\* modal that does not hide are logged and swallowed, so the modal is closed
\* or still open afterwards
close_modal ==
  /\ close_calls' = close_calls + 1
  /\ \/ modal' = "closed" /\ close_failed' = FALSE /\ faults' = faults
     \/ modal = "open" /\ Fault /\ modal' = "stuck" /\ close_failed' = TRUE
     \/ modal = "stuck" /\ faults' = faults /\ modal' = "stuck"
        /\ close_failed' = TRUE

\* process_post_html returns v to search_posts
Return(v) ==
  /\ post_data' = v
  /\ pc' = "after_pp"
  /\ ResetLocals
  /\ succeeded' = IF Truthy(v)
                  THEN succeeded \cup {FileName(Keywords[kw], j + 1)}
                  ELSE succeeded
  /\ returned_urls' =
       IF Truthy(v) /\ Truthy(v.v["metadata"].v["post_url"])
       THEN returned_urls \cup {v.v["metadata"].v["post_url"].v}
       ELSE returned_urls

\* an exception leaves the inner try block: its finally clause runs next
Raise(kind) ==
  /\ Fault
  /\ pp_faults' = pp_faults \cup {kind}
  /\ raising' = TRUE
  /\ pc' = "pp_finally"

\* lines 260-274 and 603-606: the container is marked, its reactions
\* control looked up
PP_Start ==
  /\ pc = "pp_start"
  /\ clicked' = FALSE /\ comments_clicked' = FALSE
  /\ close_calls' = 0 /\ close_failed' = FALSE
  /\ \/ /\ Fault
        /\ pp_faults' = {"container"}
        /\ pc' = "pp_except"
        /\ UNCHANGED <<ppLocals, post_data, retHist>>
     \/ /\ Fault
        /\ pp_faults' = {"no_reactions"}
        /\ Return(JNone)
     \/ /\ faults' = faults
        /\ pp_faults' = {}
        /\ pc' = "pp_click"
        /\ UNCHANGED <<ppLocals, post_data, retHist>>
  /\ UNCHANGED <<sessionVars, shown, loopVars, modal, fsVars, passHist>>

\* lines 275-279: the reactions control is scrolled into view and clicked
PP_Click ==
  /\ pc = "pp_click"
  /\ \/ /\ Raise("click")
        /\ UNCHANGED <<clicked, modal>>
     \/ /\ faults' = faults
        /\ clicked' = TRUE
        /\ modal' = IF modal = "closed" THEN "open" ELSE modal
        /\ pc' = "pp_wait_modal"
        /\ UNCHANGED <<pp_faults, raising>>
     \/ /\ modal = "closed" /\ Fault
        /\ pp_faults' = pp_faults \cup {"modal"}
        /\ clicked' = TRUE /\ modal' = modal
        /\ pc' = "pp_wait_modal"
        /\ UNCHANGED raising
  /\ UNCHANGED <<sessionVars, shown, loopVars, likers, comments, author_info,
                 post_metadata, post_content, loads, post_data, fsVars,
                 loopHist, comments_clicked, close_calls, close_failed>>

\* lines 281-288: the wait for the modal; on its timeout the function
\* returns None from inside the try block
PP_WaitModal ==
  /\ pc = "pp_wait_modal"
  /\ pc' = IF modal # "closed" THEN "pp_wait_profiles" ELSE "pp_finally"
  /\ UNCHANGED <<sessionVars, shown, loopVars, ppLocals, post_data, modal, fsVars,
                 faults, loopHist, ppHist>>

\* lines 290-294: the wait for the rows of the modal
PP_WaitProfiles ==
  /\ pc = "pp_wait_profiles"
  /\ \/ /\ faults' = faults
        /\ pc' = "pp_fields"
        /\ UNCHANGED pp_faults
     \/ /\ Fault
        /\ pp_faults' = pp_faults \cup {"profiles"}
        /\ pc' = "pp_close_timeout"
  /\ UNCHANGED <<sessionVars, shown, loopVars, ppLocals, post_data, modal, fsVars,
                 loopHist, clicked, comments_clicked, close_calls,
                 close_failed>>

\* lines 295-297: the rows did not load: the modal is closed and the
\* function returns None from inside the try block
PP_CloseOnTimeout ==
  /\ pc = "pp_close_timeout"
  /\ close_modal
  /\ pc' = "pp_finally"
  /\ UNCHANGED <<sessionVars, shown, loopVars, ppLocals, post_data, fsVars,
                 loopHist, clicked, comments_clicked, pp_faults>>

\* lines 299-319: the post URL, the author block, the metadata and the text;
\* a locator that matches no element raises when it is read, except for the
\* text, which is guarded by a count
PP_Fields ==
  /\ pc = "pp_fields"
  /\ \/ /\ Raise("field")
        /\ UNCHANGED <<author_info, post_metadata, post_content>>
     \/ /\ \E has_href, has_text \in BOOLEAN :
             /\ \/ has_href /\ has_text /\ faults' = faults
                   /\ pp_faults' = pp_faults
                \/ ~has_href /\ has_text /\ Fault
                   /\ pp_faults' = pp_faults \cup {"no_href"}
                \/ has_href /\ ~has_text /\ Fault
                   /\ pp_faults' = pp_faults \cup {"no_text"}
             /\ LET post_url == ExtractPostUrl(container_id, has_href)
                IN /\ author_info' = ExtractAuthor(container_id, post_url)
                   /\ post_metadata' = ExtractMetadata(container_id, post_url)
             /\ post_content' =
                  IF has_text THEN PostDom(container_id).text ELSE <<>>
        /\ pc' = "pp_likers"
        /\ UNCHANGED raising
  /\ UNCHANGED <<sessionVars, shown, loopVars, likers, comments, loads, post_data,
                 modal, fsVars, loopHist, clicked, comments_clicked,
                 close_calls, close_failed>>

\* lines 321-377: the modal is scrolled until its height stops growing, then
\* every row is read, a row that raises being skipped
PP_Likers ==
  /\ pc = "pp_likers"
  /\ \/ /\ Raise("modal_scroll")
        /\ UNCHANGED likers
     \/ /\ \E bad \in 0..Len(Profiles(container_id)) :
             /\ \/ bad = 0 /\ faults' = faults /\ pp_faults' = pp_faults
                \/ bad # 0 /\ Fault /\ pp_faults' = pp_faults \cup {"liker"}
             /\ likers' = ExtractLikers(container_id, bad)
        /\ pc' = "pp_close1"
        /\ UNCHANGED raising
  /\ UNCHANGED <<sessionVars, shown, loopVars, comments, author_info, post_metadata,
                 post_content, loads, post_data, modal, fsVars, loopHist,
                 clicked, comments_clicked, close_calls, close_failed>>

\* lines 379-381: the reactions modal is closed before the comments are read
PP_Close1 ==
  /\ pc = "pp_close1"
  /\ close_modal
  /\ pc' = "pp_comments"
  /\ UNCHANGED <<sessionVars, shown, loopVars, ppLocals, post_data, fsVars,
                 loopHist, clicked, comments_clicked, pp_faults>>

\* the identities of the comment entities of a comment list, replies included
EntityIds(dom) ==
  UNION {{dom[i].id} \cup {r.id : r \in Range(ReplyEntities(dom[i]))} :
           i \in 1..Len(dom)}

\* the entity whose extraction raises in one pass over dom: none (0), or one
\* of its entities, which is one more deviation
FailingEntity(dom, bad, kind) ==
  \/ bad = 0 /\ faults' = faults /\ pp_faults' = pp_faults
  \/ bad \in EntityIds(dom) /\ Fault /\ pp_faults' = pp_faults \cup {kind}

\* lines 383-463: the comments control is clicked and the comments shown are
\* read a first time; an exception before the pass is caught at line 568
PP_Comments ==
  /\ pc = "pp_comments"
  /\ \/ /\ ~HasCommentsButton(container_id)
        /\ faults' = faults
        /\ comments' = <<>>
        /\ pc' = "pp_write"
        /\ UNCHANGED <<comments_clicked, pp_faults>>
     \/ /\ HasCommentsButton(container_id)
        /\ \/ IntRaises(CommentsButtonText(container_id))
              /\ faults' = faults /\ pp_faults' = pp_faults
           \/ Fault /\ pp_faults' = pp_faults \cup {"comments_open"}
        /\ comments' = <<>>
        /\ pc' = "pp_write"
        /\ UNCHANGED comments_clicked
     \/ /\ HasCommentsButton(container_id)
        /\ ~IntRaises(CommentsButtonText(container_id))
        /\ comments_clicked' = TRUE
        /\ \E bad \in {0} \cup CommentIds :
             /\ FailingEntity(DomComments(container_id, 0), bad, "comment1")
             /\ comments' = FirstPass(DomComments(container_id, 0), bad)
        /\ pc' = "pp_load_more"
  /\ UNCHANGED <<sessionVars, shown, loopVars, likers, author_info, post_metadata,
                 post_content, raising, loads, post_data, modal, fsVars,
                 loopHist, clicked, close_calls, close_failed>>

\* lines 465-473: the "load more comments" control is clicked as long as it
\* is visible (while True, left only by the break of line 473); a click
\* loads further comments as long as the page has some; an exception of the
\* click is caught at line 568. loads counts the clicks of the running loop
\* up to MaxLoadMore, the clicks that still load comments; of the clicks
\* after these it keeps the parity
PP_LoadMore ==
  /\ pc = "pp_load_more"
  /\ \/ /\ sticky \/ loads < MaxLoadMore
        /\ loads' = IF loads <= MaxLoadMore THEN loads + 1 ELSE MaxLoadMore
        /\ faults' = faults
        /\ pc' = pc
        /\ UNCHANGED pp_faults
     \/ /\ ~sticky
        /\ faults' = faults
        /\ pc' = "pp_second_pass"
        /\ UNCHANGED <<loads, pp_faults>>
     \/ /\ Fault
        /\ pp_faults' = pp_faults \cup {"load_more"}
        /\ pc' = "pp_write"
        /\ UNCHANGED loads
  /\ UNCHANGED <<sessionVars, shown, loopVars, likers, comments, author_info,
                 post_metadata, post_content, raising, post_data, modal,
                 fsVars, loopHist, clicked, comments_clicked, close_calls,
                 close_failed>>

\* lines 475-566: every comment entity now shown is read with
\* extract_comment_data and appended to the same list; the comment list is
\* collapsed
PP_SecondPass ==
  /\ pc = "pp_second_pass"
  /\ \E bad \in {0} \cup CommentIds :
       /\ FailingEntity(DomComments(container_id, loads), bad, "comment2")
       /\ comments' =
            comments \o SecondPass(DomComments(container_id, loads), bad)
  /\ loads' = 0
  /\ pc' = "pp_write"
  /\ UNCHANGED <<sessionVars, shown, loopVars, likers, author_info, post_metadata,
                 post_content, raising, post_data, modal, fsVars,
                 loopHist, clicked, comments_clicked, close_calls,
                 close_failed>>

\* faulty variant: the write is left for later
WriteFile_Deferred(fs, name, data) == fs

\* lines 586-591: the record is written to its file
\* faulty variant: the file name leaves out the post number
WriteFile_KeywordOnly(fs, name, data) == (<<name[1], 1>> :> data) @@ fs

WriteFile(fs, name, data) == (name :> data) @@ fs

\* lines 571-593: the record is built and written
PP_Write ==
  /\ pc = "pp_write"
  /\ \/ /\ Raise("write")
        /\ UNCHANGED <<post_data, files>>
     \/ /\ faults' = faults
        /\ post_data' = MakePostData(j + 1, Keywords[kw], author_info,
                                     post_content, post_metadata, likers,
                                     comments)
        /\ files' = WriteFile(files, FileName(Keywords[kw], j + 1), post_data')
        /\ pc' = "pp_finally"
        /\ UNCHANGED <<pp_faults, raising>>
  /\ UNCHANGED <<sessionVars, shown, loopVars, likers, comments, author_info,
                 post_metadata, post_content, loads, modal, clean_files,
                 loopHist, clicked, comments_clicked, close_calls,
                 close_failed>>

\* faulty variant: the finally clause restores the container and does not close
\* the modal
PP_Finally_NoClose ==
  /\ pc = "pp_finally"
  /\ IF raising
     THEN /\ pc' = "pp_except"
          /\ UNCHANGED <<ppLocals, post_data, retHist>>
     ELSE Return(post_data)
  /\ UNCHANGED <<sessionVars, shown, loopVars, fsVars, passHist, clicked,
                 comments_clicked, pp_faults, modal, close_calls,
                 close_failed, faults>>

\* lines 595-601: the finally clause closes the modal and restores the
\* container; then the exception goes on to the outer handler, or the
\* function returns
PP_Finally ==
  /\ pc = "pp_finally"
  /\ close_modal
  /\ IF raising
     THEN /\ pc' = "pp_except"
          /\ UNCHANGED <<ppLocals, post_data, retHist>>
     ELSE Return(post_data)
  /\ UNCHANGED <<sessionVars, shown, loopVars, fsVars, passHist, clicked,
                 comments_clicked, pp_faults>>

\* lines 608-611: the outer handler closes the modal and returns None
PP_Except ==
  /\ pc = "pp_except"
  /\ close_modal
  /\ Return(JNone)
  /\ UNCHANGED <<sessionVars, shown, loopVars, fsVars, passHist, clicked,
                 comments_clicked, pp_faults>>

(***************************************************************************)
(* clean-json.py, main: every file of posts/json is cleaned into           *)
(* posts/clean under the same name.  It is run after the scrape.           *)
(***************************************************************************)
CleanJson ==
  /\ pc = "done"
  /\ clean_files' = [f \in DOMAIN files |-> clean_dict(files[f])] @@ clean_files
  /\ clean_files' # clean_files
  /\ UNCHANGED <<sessionVars, shown, pc, loopVars, ppLocals, post_data, modal,
                 files, faults, loopHist, ppHist>>

(***************************************************************************)
(* The login check: verify_login of main.py and                            *)
(* check_login_status_playwright of trial2.py.  An address is the sequence *)
(* of the segments of its path, and "sub in current_url" is the search of  *)
(* a run of segments.                                                      *)
(***************************************************************************)
Urls ==
  {<<"feed">>, <<"checkpoint", "challenge">>, <<"checkpoint", "lg">>,
   <<"login">>, <<"authwall">>, <<"challenge">>}

\* main.py line 135
ChallengePatterns == {<<"checkpoint", "challenge">>}
\* main.py line 145, trial2.py line 199
AuthPatterns == {<<"login">>, <<"authwall">>, <<"challenge">>, <<"checkpoint">>}

\* any(sub in current_url for sub in patterns)
AnyIn(patterns, u) == \E sub \in patterns : Contains(u, sub)

\* main.py line 96
max_wait_time == 120
\* main.py line 137: the bound of the challenge wait, in seconds
ChallengeWait == 60
\* main.py lines 103 and 144: asyncio.sleep(5)
PollSleep == 5

LReturn(v) == lpc' = "done" /\ lret' = v

Note(e) == events' = events \cup e

\* main.py lines 78-88: the navigation to the feed
VL_Goto ==
  /\ impl = "main" /\ lpc = "start"
  /\ \/ /\ lpc' = "except_timeout" /\ Note({"nav_timeout"})
        /\ UNCHANGED url
     \/ /\ lpc' = "except_any" /\ Note({"nav_error"})
        /\ UNCHANGED url
     \/ /\ url' \in Urls
        /\ lpc' = "puzzle_check" /\ UNCHANGED events
  /\ UNCHANGED <<is_logged_in, scrapeVars, extraVars, puzzle_polls, impl, lret, current_url,
                 wait_time, elapsed, saved, polls>>

\* main.py lines 91-96 and 111-114: is the puzzle on the page
VL_PuzzleCheck ==
  /\ impl = "main" /\ lpc = "puzzle_check"
  /\ \/ /\ lpc' = "puzzle_loop" /\ wait_time' = 0
        /\ Note({"puzzle"})
     \/ /\ lpc' = "sign_in"
        /\ UNCHANGED <<wait_time, events>>
  /\ UNCHANGED <<is_logged_in, scrapeVars, extraVars, puzzle_polls, impl, lret, current_url, elapsed,
                 url, saved, polls>>

\* main.py lines 98-105: one turn of the puzzle wait
VL_PuzzleLoop ==
  /\ impl = "main" /\ lpc = "puzzle_loop"
  /\ IF wait_time < max_wait_time
     THEN /\ puzzle_polls' = puzzle_polls + 1
          /\ \/ /\ lpc' = "puzzle_after" /\ Note({"puzzle_gone"})
                /\ UNCHANGED wait_time
             \/ /\ wait_time' = wait_time + PollSleep
                /\ UNCHANGED <<lpc, events>>
             \/ /\ lpc' = "sign_in" /\ Note({"puzzle_error"})
                /\ UNCHANGED wait_time
     ELSE /\ lpc' = "puzzle_after"
          /\ UNCHANGED <<wait_time, events, puzzle_polls>>
  /\ UNCHANGED <<is_logged_in, scrapeVars, extraVars, impl, lret, current_url, elapsed,
                 url, saved, polls>>

\* faulty variant: the timeout of the puzzle wait is logged and the check
\* goes on
VL_PuzzleAfter_Proceeds ==
  /\ impl = "main" /\ lpc = "puzzle_after"
  /\ lpc' = "sign_in"
  /\ IF wait_time >= max_wait_time
     THEN Note({"puzzle_timeout"})
     ELSE UNCHANGED events
  /\ UNCHANGED <<is_logged_in, scrapeVars, extraVars, puzzle_polls, impl, lret,
                 current_url, wait_time, elapsed, url, saved, polls>>

\* main.py lines 107-109: the puzzle wait is over
VL_PuzzleAfter ==
  /\ impl = "main" /\ lpc = "puzzle_after"
  /\ IF wait_time >= max_wait_time
     THEN LReturn("False") /\ Note({"puzzle_timeout"})
     ELSE lpc' = "sign_in" /\ UNCHANGED <<lret, events>>
  /\ UNCHANGED <<is_logged_in, scrapeVars, extraVars, puzzle_polls, impl, current_url, wait_time,
                 elapsed, url, saved, polls>>

\* main.py lines 117-128: the "Sign in as" button; a click may move the page
VL_SignInAs ==
  /\ impl = "main" /\ lpc = "sign_in"
  /\ \/ url' \in Urls
     \/ UNCHANGED url
  /\ lpc' = "url_check"
  /\ UNCHANGED <<is_logged_in, scrapeVars, extraVars, puzzle_polls, impl, lret, current_url,
                 wait_time, elapsed, saved, events, polls>>

\* main.py lines 131-148: the address after the navigation
VL_UrlCheck ==
  /\ impl = "main" /\ lpc = "url_check"
  /\ current_url' = url
  /\ IF AnyIn(ChallengePatterns, url)
     THEN /\ elapsed' = 0 /\ lpc' = "challenge_loop"
          /\ Note({"challenge"})
          /\ UNCHANGED <<is_logged_in, lret>>
     ELSE IF AnyIn(AuthPatterns, url)
     THEN /\ is_logged_in' = FALSE /\ LReturn("False")
          /\ Note({"redirect"})
          /\ UNCHANGED elapsed
     ELSE /\ lpc' = "indicator"
          /\ UNCHANGED <<is_logged_in, lret, elapsed, events>>
  /\ UNCHANGED <<scrapeVars, extraVars, puzzle_polls, impl, wait_time, url, saved, polls>>

\* main.py lines 137-144: one turn of the challenge wait; the page may have
\* moved since the last poll
VL_ChallengeLoop ==
  /\ impl = "main" /\ lpc = "challenge_loop"
  /\ IF elapsed < ChallengeWait
     THEN /\ url' \in Urls
          /\ current_url' = url'
          /\ polls' = polls + 1
          /\ IF Contains(url', <<"feed">>)
             THEN /\ lpc' = "indicator" /\ Note({"feed_seen"})
                  /\ UNCHANGED elapsed
             ELSE /\ elapsed' = elapsed + PollSleep
                  /\ UNCHANGED <<lpc, events>>
     ELSE /\ lpc' = "indicator" /\ Note({"wait_elapsed"})
          /\ UNCHANGED <<url, current_url, polls, elapsed>>
  /\ UNCHANGED <<is_logged_in, scrapeVars, extraVars, puzzle_polls, impl, lret, wait_time, saved>>

\* faulty variant: a failed wait for the indicator is logged and the check goes on
\* to report success
VL_Indicator_Optimistic ==
  /\ impl = "main" /\ lpc = "indicator"
  /\ \/ Note({"indicator_checked", "marker_seen"})
     \/ Note({"indicator_checked", "marker_timeout"})
     \/ Note({"indicator_checked", "probe_error"})
  /\ is_logged_in' = TRUE /\ LReturn("True")
  /\ UNCHANGED <<scrapeVars, extraVars, puzzle_polls, impl, current_url, wait_time, elapsed, url,
                 saved, polls>>

\* main.py lines 150-160: the wait for the element of the feed page
VL_Indicator ==
  /\ impl = "main" /\ lpc = "indicator"
  /\ \/ /\ Note({"indicator_checked", "marker_seen"})
        /\ is_logged_in' = TRUE /\ LReturn("True")
     \/ /\ Note({"indicator_checked", "marker_timeout"})
        /\ is_logged_in' = FALSE /\ LReturn("False")
     \/ /\ Note({"indicator_checked", "probe_error"})
        /\ is_logged_in' = FALSE /\ LReturn("False")
  /\ UNCHANGED <<scrapeVars, extraVars, puzzle_polls, impl, current_url, wait_time, elapsed, url,
                 saved, polls>>

\* main.py lines 162-169: the handlers of the outer try block
VL_Except ==
  /\ impl = "main" /\ lpc \in {"except_timeout", "except_any"}
  /\ is_logged_in' = FALSE /\ LReturn("False")
  /\ UNCHANGED <<scrapeVars, extraVars, puzzle_polls, impl, current_url, wait_time, elapsed, url,
                 saved, events, polls>>

\* trial2.py lines 27-45: save_html is called for a file; an error of the
\* write is logged
save_html(filename) == saved' = saved \cup {filename}

\* trial2.py lines 178-181: the navigation to the feed
CL_Goto ==
  /\ impl = "trial2" /\ lpc = "start"
  /\ \/ /\ lpc' = "except_timeout" /\ Note({"nav_timeout"})
        /\ UNCHANGED url
     \/ /\ lpc' = "except_pw" /\ Note({"nav_error"})
        /\ UNCHANGED url
     \/ /\ lpc' = "except_any" /\ Note({"nav_error"})
        /\ UNCHANGED url
     \/ /\ url' \in Urls
        /\ lpc' = "sign_in" /\ UNCHANGED events
  /\ UNCHANGED <<is_logged_in, scrapeVars, extraVars, puzzle_polls, impl, lret, current_url,
                 wait_time, elapsed, saved, polls>>

\* trial2.py lines 183-194: the "Sign in as" button; an error that is not a
\* Playwright error leaves the try block
CL_SignInAs ==
  /\ impl = "trial2" /\ lpc = "sign_in"
  /\ \/ url' \in Urls /\ lpc' = "url_check"
     \/ UNCHANGED url /\ lpc' = "url_check"
     \/ UNCHANGED url /\ lpc' = "except_any"
  /\ UNCHANGED <<is_logged_in, scrapeVars, extraVars, puzzle_polls, impl, lret, current_url,
                 wait_time, elapsed, saved, events, polls>>

\* trial2.py lines 196-202: the address after the navigation; page.content()
\* may raise
CL_UrlCheck ==
  /\ impl = "trial2" /\ lpc = "url_check"
  /\ current_url' = url
  /\ IF AnyIn(AuthPatterns, url)
     THEN /\ events' = events \cup {"redirect"} \cup
                       (IF AnyIn(ChallengePatterns, url)
                        THEN {"challenge"} ELSE {})
          /\ \/ save_html("playwright_redirect_page.html")
                  /\ LReturn("False")
             \/ lpc' = "except_pw" /\ UNCHANGED <<lret, saved>>
     ELSE /\ lpc' = "indicator"
          /\ UNCHANGED <<lret, saved, events>>
  /\ UNCHANGED <<is_logged_in, scrapeVars, extraVars, puzzle_polls, impl, wait_time, elapsed, url,
                 polls>>

\* trial2.py lines 204-218: the wait for the element of the feed page; an
\* error of page.content() in the try block is handled as an error of the
\* wait, one in a handler leaves the try block
CL_Indicator ==
  /\ impl = "trial2" /\ lpc = "indicator"
  /\ \/ /\ Note({"indicator_checked", "marker_seen"})
        /\ \/ save_html("playwright_feed_page_success.html")
                /\ LReturn("True")
           \/ save_html("playwright_feed_page_error_locator.html")
                /\ LReturn("False")
           \/ lpc' = "except_pw" /\ UNCHANGED <<lret, saved>>
     \/ /\ Note({"indicator_checked", "marker_timeout"})
        /\ \/ save_html("playwright_feed_page_fail_indicator_not_found.html")
                /\ LReturn("False")
           \/ lpc' = "except_pw" /\ UNCHANGED <<lret, saved>>
     \/ /\ Note({"indicator_checked", "probe_error"})
        /\ \/ save_html("playwright_feed_page_error_locator.html")
                /\ LReturn("False")
           \/ lpc' = "except_pw" /\ UNCHANGED <<lret, saved>>
  /\ UNCHANGED <<is_logged_in, scrapeVars, extraVars, puzzle_polls, impl, current_url, wait_time,
                 elapsed, url, polls>>

ExceptFile(at) ==
  CASE at = "except_timeout" -> "playwright_navigation_timeout_page.html"
    [] at = "except_pw" -> "playwright_general_error_page.html"
    [] at = "except_any" -> "playwright_unexpected_error_page.html"

\* trial2.py lines 220-240: the handlers of the outer try block; an error of
\* the snapshot is logged
CL_Except ==
  /\ impl = "trial2" /\ lpc \in {"except_timeout", "except_pw", "except_any"}
  /\ \/ save_html(ExceptFile(lpc)) /\ UNCHANGED events
     \/ UNCHANGED saved /\ Note({"snapshot_failed"})
  /\ LReturn("False")
  /\ UNCHANGED <<is_logged_in, scrapeVars, extraVars, puzzle_polls, impl, current_url, wait_time,
                 elapsed, url, polls>>

Next ==
  \/ SearchPosts_Begin
  \/ Keyword_Navigate
  \/ Keyword_Except
  \/ Loop
  \/ Container_Read
  \/ Container_After
  \/ Finish
  \/ PP_Start
  \/ PP_Click
  \/ PP_WaitModal
  \/ PP_WaitProfiles
  \/ PP_CloseOnTimeout
  \/ PP_Fields
  \/ PP_Likers
  \/ PP_Close1
  \/ PP_Comments
  \/ PP_LoadMore
  \/ PP_SecondPass
  \/ PP_Write
  \/ PP_Finally
  \/ PP_Except
  \/ CleanJson

Spec == Init /\ [][Next]_vars

\* the scrape with a load-more loop that keeps running: a pass of the loop
\* that can be made is made
SpecFair == Spec /\ WF_vars(PP_LoadMore)

\* main.py line 35 and the call of line 809; trial2.py line 285
InitLogin ==
  /\ is_logged_in = FALSE
  /\ pc = "off"
  /\ ScrapeInit
  /\ ToolsOff
  /\ sticky = FALSE
  /\ impl \in {"main", "trial2"}
  /\ lpc = "start" /\ lret = "none"
  /\ current_url = <<>> /\ url = <<>> /\ wait_time = 0 /\ elapsed = 0
  /\ saved = {} /\ events = {} /\ polls = 0 /\ puzzle_polls = 0
  /\ ScrollOff
  /\ CookiesOff
  /\ RunOff

NextLogin ==
  \/ VL_Goto
  \/ VL_PuzzleCheck
  \/ VL_PuzzleLoop
  \/ VL_PuzzleAfter
  \/ VL_SignInAs
  \/ VL_UrlCheck
  \/ VL_ChallengeLoop
  \/ VL_Indicator
  \/ VL_Except
  \/ CL_Goto
  \/ CL_SignInAs
  \/ CL_UrlCheck
  \/ CL_Indicator
  \/ CL_Except

SpecLogin == InitLogin /\ [][NextLogin]_vars

\* the login check is one coroutine that is awaited to its end: a step that
\* can be taken is taken
SpecLoginFair == SpecLogin /\ WF_vars(NextLogin)

\* main.py line 76: verify_login is awaited once more on the same object;
\* its locals are new, the flag and the page are as the last call left them
VL_CallAgain ==
  /\ impl = "main" /\ lpc = "done"
  /\ lpc' = "start" /\ lret' = "none"
  /\ current_url' = <<>> /\ wait_time' = 0 /\ elapsed' = 0
  /\ saved' = {} /\ events' = {} /\ polls' = 0 /\ puzzle_polls' = 0
  /\ UNCHANGED <<is_logged_in, scrapeVars, extraVars, impl, url>>

InitLoginCalls == InitLogin /\ impl = "main"

\* any sequence of verify_login calls on one LinkedInAutomation object
NextLoginCalls ==
  \/ VL_Goto
  \/ VL_PuzzleCheck
  \/ VL_PuzzleLoop
  \/ VL_PuzzleAfter
  \/ VL_SignInAs
  \/ VL_UrlCheck
  \/ VL_ChallengeLoop
  \/ VL_Indicator
  \/ VL_Except
  \/ VL_CallAgain

SpecLoginCalls == InitLoginCalls /\ [][NextLoginCalls]_vars

(***************************************************************************)
(* The cookie loader: load_cookies of main.py and load_cookies_playwright  *)
(* of trial2.py.  A domain is the sequence of its parts, the part          *)
(* ".linkedin.com" standing for that suffix; a sameSite value is one token.*)
(***************************************************************************)
Tok(x) == JStr(<<x>>)
LinkedInDomain == <<".linkedin.com">>
\* trial2.py line 102
required_keys == {"name", "value", "domain"}
\* trial2.py line 103
valid_same_site_values == {Tok("Strict"), Tok("Lax"), Tok("None")}

BaseCookie(dom) ==
  [name |-> Tok("li_at"), value |-> Tok("v"), domain |-> dom]

\* the entries a cookie list is made of
CookieItems ==
  LET li == JStr(<<"www", ".linkedin.com">>)
  IN {JDict(BaseCookie(li)),
      JDict(("sameSite" :> Tok("Strict")) @@ BaseCookie(li)),
      JDict(("sameSite" :> Tok("None")) @@ BaseCookie(li)),
      JDict(("sameSite" :> Tok("no_restriction")) @@ BaseCookie(li)),
      JDict(("sameSite" :> JNone) @@ ("expirationDate" :> JInt(9)) @@
            BaseCookie(JStr(<<".linkedin.com">>))),
      JDict(("sameSite" :> Tok("Lax")) @@ BaseCookie(JStr(<<".example.com">>))),
      JDict([value |-> Tok("v"), domain |-> li]),
      JDict(BaseCookie(JNone)),
      Tok("x")}

RECURSIVE SeqsUpTo(_, _)
SeqsUpTo(S, n) ==
  IF n = 0 THEN {<<>>}
  ELSE LET shorter == SeqsUpTo(S, n - 1)
       IN shorter \cup {Append(q, x) : q \in shorter, x \in S}

\* what json.load may give
CookieContents ==
  {JList(q) : q \in SeqsUpTo(CookieItems, MaxCookies)}
    \cup {JDict([cookies |-> JList(<<>>)]), JNone}

\* the cookie source: a path with no file, a file that is not JSON, a file
\* with JSON content, or (trial2.py) a JSON list given as the string itself
CookieSources ==
  {[kind |-> "missing"], [kind |-> "garbage"]}
    \cup {[kind |-> "file", content |-> c] : c \in CookieContents}
    \cup {[kind |-> "inline", content |-> c] :
            c \in {x \in CookieContents : x.t = "list"}}

\* what  for cookie in v  goes through; a dict gives its keys
IterRaises(v) == v.t \notin {"list", "dict"}
IterItems(v) ==
  IF v.t = "list" THEN v.v
  ELSE LET keys == CHOOSE q \in Orderings(DOMAIN v.v) : TRUE
       IN [i \in DOMAIN keys |-> Tok(keys[i])]

\* sub in x  raises when x is not a string
NotAString(x) == x.t # "str"

\* main.py lines 64-68: None when an entry raises
RECURSIVE FormatMain(_)
FormatMain(items) ==
  IF items = <<>> THEN [raised |-> FALSE, out |-> <<>>]
  ELSE LET cookie == Head(items)
           rest == FormatMain(Tail(items))
           dom == IF cookie.t = "dict" /\ "domain" \in DOMAIN cookie.v
                  THEN cookie.v["domain"] ELSE JStr(<<>>)
       IN IF cookie.t # "dict" \/ NotAString(dom)
          THEN [raised |-> TRUE, out |-> <<>>]
          ELSE IF rest.raised THEN rest
          ELSE IF Contains(dom.v, LinkedInDomain)
          THEN [raised |-> FALSE,
                out |-> <<JDict(("sameSite" :> Tok("Lax")) @@ cookie.v)>>
                          \o rest.out]
          ELSE rest

\* trial2.py lines 119-127
ExpiresOf(cookie) ==
  LET e == IF "expirationDate" \in DOMAIN cookie.v
           THEN cookie.v["expirationDate"] ELSE Get(cookie, "expiry")
  IN IF e.t = "int" THEN e ELSE JInt(-1)

\* trial2.py lines 129-136
FinalSameSite(cookie) ==
  LET input_same_site == Get(cookie, "sameSite")
  IN IF input_same_site = JNone THEN Tok("Lax")
     ELSE IF input_same_site \in valid_same_site_values THEN input_same_site
     ELSE Tok("Lax")

\* trial2.py lines 138-147
FormattedCookie(cookie) ==
  JDict([name |-> cookie.v["name"],
         value |-> cookie.v["value"],
         domain |-> cookie.v["domain"],
         path |-> IF "path" \in DOMAIN cookie.v THEN cookie.v["path"]
                  ELSE Tok("/"),
         expires |-> ExpiresOf(cookie),
         httpOnly |-> IF "httpOnly" \in DOMAIN cookie.v
                      THEN cookie.v["httpOnly"] ELSE Tok("False"),
         secure |-> IF "secure" \in DOMAIN cookie.v THEN cookie.v["secure"]
                    ELSE Tok("True"),
         sameSite |-> FinalSameSite(cookie)])

\* trial2.py lines 105-148
RECURSIVE FormatTrial2(_)
FormatTrial2(items) ==
  IF items = <<>> THEN [raised |-> FALSE, out |-> <<>>]
  ELSE LET cookie == Head(items)
           rest == FormatTrial2(Tail(items))
       IN IF cookie.t # "dict" THEN rest
          ELSE IF ~(required_keys \subseteq DOMAIN cookie.v) THEN rest
          ELSE IF NotAString(cookie.v["domain"])
          THEN [raised |-> TRUE, out |-> <<>>]
          ELSE IF ~Contains(cookie.v["domain"].v, LinkedInDomain) THEN rest
          ELSE IF rest.raised THEN rest
          ELSE [raised |-> FALSE,
                out |-> <<FormattedCookie(cookie)>> \o rest.out]

CReturn(v) == cpc' = "done" /\ cret' = v

\* context.add_cookies(cs): the cookies are added, or the call raises
add_cookies(cs, ok) ==
  /\ add_calls' = Append(add_calls, cs)
  /\ jar' = IF ok THEN jar \o cs ELSE jar

\* faulty variant: the entries are added as they are in the file
load_cookies_Unfiltered ==
  /\ cimpl = "main" /\ cpc = "start"
  /\ IF cookie_src.kind # "file"
     THEN CReturn("False") /\ UNCHANGED <<jar, add_calls>>
     ELSE IF IterRaises(cookie_src.content)
     THEN CReturn("False") /\ UNCHANGED <<jar, add_calls>>
     ELSE \E ok \in BOOLEAN :
            /\ add_cookies(IterItems(cookie_src.content), ok)
            /\ CReturn(IF ok THEN "True" ELSE "False")
  /\ UNCHANGED <<notCookies, cimpl, cookie_src>>

\* main.py lines 54-74
load_cookies ==
  /\ cimpl = "main" /\ cpc = "start"
  /\ IF cookie_src.kind # "file"
     THEN CReturn("False") /\ UNCHANGED <<jar, add_calls>>
     ELSE IF IterRaises(cookie_src.content)
     THEN CReturn("False") /\ UNCHANGED <<jar, add_calls>>
     ELSE LET f == FormatMain(IterItems(cookie_src.content))
          IN IF f.raised
             THEN CReturn("False") /\ UNCHANGED <<jar, add_calls>>
             ELSE \E ok \in BOOLEAN :
                    /\ add_cookies(f.out, ok)
                    /\ CReturn(IF ok THEN "True" ELSE "False")
  /\ UNCHANGED <<notCookies, cimpl, cookie_src>>

\* trial2.py lines 47-156
load_cookies_playwright ==
  /\ cimpl = "trial2" /\ cpc = "start"
  /\ IF cookie_src.kind \notin {"file", "inline"}
     THEN CReturn("False") /\ UNCHANGED <<jar, add_calls>>
     ELSE IF IterRaises(cookie_src.content)
     THEN CReturn("False") /\ UNCHANGED <<jar, add_calls>>
     ELSE LET f == FormatTrial2(IterItems(cookie_src.content))
          IN IF f.raised \/ f.out = <<>>
             THEN CReturn("False") /\ UNCHANGED <<jar, add_calls>>
             ELSE \E ok \in BOOLEAN :
                    /\ add_cookies(f.out, ok)
                    /\ CReturn(IF ok THEN "True" ELSE "False")
  /\ UNCHANGED <<notCookies, cimpl, cookie_src>>

InitCookies ==
  /\ is_logged_in = FALSE
  /\ pc = "off"
  /\ ScrapeInit
  /\ ToolsOff
  /\ sticky = FALSE
  /\ LoginOff
  /\ ScrollOff
  /\ cimpl \in {"main", "trial2"} /\ cpc = "start"
  /\ cookie_src \in CookieSources
  /\ cret = "none" /\ jar = <<>> /\ add_calls = <<>>
  /\ RunOff

NextCookies ==
  \/ load_cookies
  \/ load_cookies_playwright

SpecCookies == InitCookies /\ [][NextCookies]_vars

(***************************************************************************)
(* The scroll loop of search_posts (main.py lines 688-717), for any value  *)
(* of max_scrolls and any heights the page reports.                        *)
(***************************************************************************)
Heights == 1..MaxHeight

InitScroll ==
  /\ is_logged_in = TRUE
  /\ pc = "off"
  /\ ScrapeInit
  /\ ToolsOff
  /\ sticky = FALSE
  /\ LoginOff
  /\ spc = "start" /\ max_attempts \in 0..MaxScrollsArg
  /\ scroll_attempts = 0
  /\ last_height = 0 /\ new_height = 0 /\ final_height = 0
  /\ iterations = 0 /\ stable = FALSE /\ exit_by = "none"
  /\ CookiesOff
  /\ RunOff

\* lines 690-692: the height before the first scroll; evaluate may raise
Scroll_Begin ==
  /\ spc = "start"
  /\ \/ /\ last_height' \in Heights /\ scroll_attempts' = 0
        /\ spc' = "while"
     \/ /\ spc' = "raised" /\ UNCHANGED <<last_height, scroll_attempts>>
  /\ UNCHANGED <<notScroll, max_attempts, new_height, final_height,
                 iterations, stable, exit_by>>

\* line 694: the test of the while loop
Scroll_While ==
  /\ spc = "while"
  /\ IF scroll_attempts < max_attempts
     THEN /\ spc' = "scroll" /\ iterations' = iterations + 1
          /\ UNCHANGED exit_by
     ELSE /\ spc' = "done" /\ exit_by' = "ceiling"
          /\ UNCHANGED iterations
  /\ UNCHANGED <<notScroll, max_attempts, scroll_attempts, last_height,
                 new_height, final_height, stable>>

\* lines 713-716: the end of the loop body
Scroll_Continue ==
  /\ last_height' = new_height'
  /\ scroll_attempts' = scroll_attempts + 1
  /\ spc' = "while"

\* lines 695-700: the scroll to the bottom and the height after it
Scroll_Iter ==
  /\ spc = "scroll"
  /\ \/ /\ new_height' \in Heights
        /\ IF new_height' = last_height
           THEN /\ spc' = "recheck"
                /\ UNCHANGED <<last_height, scroll_attempts>>
           ELSE Scroll_Continue
     \/ /\ spc' = "raised"
        /\ UNCHANGED <<new_height, last_height, scroll_attempts>>
  /\ UNCHANGED <<notScroll, max_attempts, final_height, iterations, stable,
                 exit_by>>

\* faulty variant: the re-check logs the stable height and the loop goes on
Scroll_Recheck_NoBreak ==
  /\ spc = "recheck"
  /\ final_height' \in Heights
  /\ stable' = (stable \/ final_height' = new_height)
  /\ UNCHANGED <<new_height, exit_by>>
  /\ Scroll_Continue
  /\ UNCHANGED <<notScroll, max_attempts, iterations>>

\* lines 701-711: the height did not change: after a wait the page is
\* scrolled and measured again, and the loop is left if it is still the same
Scroll_Recheck ==
  /\ spc = "recheck"
  /\ \/ /\ final_height' \in Heights
        /\ UNCHANGED new_height
        /\ IF final_height' = new_height
           THEN /\ spc' = "done" /\ exit_by' = "stable" /\ stable' = TRUE
                /\ UNCHANGED <<last_height, scroll_attempts>>
           ELSE /\ Scroll_Continue
                /\ UNCHANGED <<exit_by, stable>>
     \/ /\ spc' = "raised"
        /\ UNCHANGED <<new_height, final_height, last_height,
                       scroll_attempts, exit_by, stable>>
  /\ UNCHANGED <<notScroll, max_attempts, iterations>>

NextScroll ==
  \/ Scroll_Begin
  \/ Scroll_While
  \/ Scroll_Iter
  \/ Scroll_Recheck

\* the loop runs in one coroutine that is awaited to its end
SpecScroll == InitScroll /\ [][NextScroll]_vars /\ WF_vars(NextScroll)

(***************************************************************************)
(* A run: main of main.py with LinkedInAutomation.initialize and close,    *)
(* and main_playwright of trial2.py.  The functions a run calls are the    *)
(* actions above; a call puts the callee at its start and the caller goes  *)
(* on when the callee is done.                                             *)
(***************************************************************************)
\* the cookie sources of a run
RunCookieSources ==
  {[kind |-> "missing"],
   [kind |-> "file",
    content |-> JList(<<JDict(BaseCookie(JStr(LinkedInDomain)))>>)]}

\* the browser, the context and the page are made in this order; the first
\* got of them are made before a call raises
Acquire(got) ==
  /\ browser' = IF got >= 1 THEN "open" ELSE "none"
  /\ context' = IF got >= 2 THEN "open" ELSE "none"
  /\ page' = IF got >= 3 THEN "open" ELSE "none"

\* the locals of the login check are gone when it has returned
LoginReturned ==
  /\ lpc' = "off" /\ lret' = "none" /\ current_url' = <<>> /\ url' = <<>>
  /\ wait_time' = 0 /\ elapsed' = 0 /\ events' = {} /\ polls' = 0
  /\ puzzle_polls' = 0
  /\ UNCHANGED impl

\* main.py lines 37-52 and 797-802: initialize returns False when a call
\* of it raises
Main_Initialize ==
  /\ impl = "main" /\ mpc = "start"
  /\ \E got \in 0..3 :
       /\ Acquire(got)
       /\ IF got = 3
          THEN steps' = Append(steps, "initialize") /\ mpc' = "cookies"
          ELSE UNCHANGED steps /\ mpc' = "finally"
  /\ UNCHANGED <<is_logged_in, scrapeVars, loginVars, scrollVars, toolVars, cookieVars,
                 closes, escaped>>

\* main.py line 804: load_cookies is called
Main_LoadCookies ==
  /\ impl = "main" /\ mpc = "cookies"
  /\ cpc' = "start" /\ mpc' = "cookies_wait"
  /\ UNCHANGED <<is_logged_in, scrapeVars, loginVars, scrollVars, toolVars, cookieRest,
                 browser, context, page, steps, closes, escaped>>

\* faulty variant: the value load_cookies returned is not looked at
Main_VerifyLogin_Unchecked ==
  /\ impl = "main" /\ mpc = "cookies_wait" /\ cpc = "done"
  /\ steps' = IF cret = "True" THEN Append(steps, "load_cookies") ELSE steps
  /\ lpc' = "start" /\ mpc' = "login_wait"
  /\ UNCHANGED <<is_logged_in, scrapeVars, loginRest, scrollVars, toolVars, cookieVars,
                 browser, context, page, closes, escaped>>

\* main.py lines 804-809: load_cookies has returned; verify_login is called
Main_VerifyLogin ==
  /\ impl = "main" /\ mpc = "cookies_wait" /\ cpc = "done"
  /\ IF cret = "True"
     THEN /\ steps' = Append(steps, "load_cookies")
          /\ lpc' = "start" /\ mpc' = "login_wait"
     ELSE /\ mpc' = "finally" /\ UNCHANGED <<steps, lpc>>
  /\ UNCHANGED <<is_logged_in, scrapeVars, loginRest, scrollVars, toolVars, cookieVars,
                 browser, context, page, closes, escaped>>

\* main.py lines 809-822: verify_login has returned; search_posts is called
Main_SearchPosts ==
  /\ impl = "main" /\ mpc = "login_wait" /\ lpc = "done"
  /\ IF lret = "True"
     THEN /\ steps' = steps \o <<"verify_login", "search_posts">>
          /\ pc' = "start" /\ mpc' = "search_wait"
     ELSE /\ mpc' = "finally" /\ UNCHANGED <<steps, pc>>
  /\ LoginReturned
  /\ UNCHANGED <<is_logged_in, scrapeRest, scrollVars, toolVars, cookieVars, saved,
                 browser, context, page, closes, escaped>>

\* main.py lines 822-826: search_posts has returned
Main_AfterSearch ==
  /\ impl = "main" /\ mpc = "search_wait" /\ pc = "done"
  /\ mpc' = "finally"
  /\ UNCHANGED <<is_logged_in, scrapeVars, loginVars, scrollVars, toolVars, cookieVars,
                 browser, context, page, steps, closes, escaped>>

\* LinkedInAutomation.close: one of its three close calls; an exception of
\* the call leaves close and main
CloseCall(name, res, next) ==
  /\ IF res = "none"
     THEN mpc' = next /\ UNCHANGED <<browser, context, page, closes, escaped>>
     ELSE /\ closes' = Append(closes, name)
          /\ \/ /\ mpc' = next /\ UNCHANGED escaped
                /\ browser' = IF name = "browser" THEN "closed" ELSE browser
                /\ context' = IF name = "context" THEN "closed" ELSE context
                /\ page' = IF name = "page" THEN "closed" ELSE page
             \/ /\ mpc' = "exit" /\ escaped' = TRUE
                /\ UNCHANGED <<browser, context, page>>
  /\ UNCHANGED <<is_logged_in, scrapeVars, loginVars, scrollVars, toolVars, cookieVars,
                 steps>>

\* main.py lines 831-832 and 787-788
Close_Page ==
  /\ impl = "main" /\ mpc = "finally"
  /\ CloseCall("page", page, "close_context")
\* main.py lines 789-790
Close_Context ==
  /\ impl = "main" /\ mpc = "close_context"
  /\ CloseCall("context", context, "close_browser")
\* main.py lines 791-792
Close_Browser ==
  /\ impl = "main" /\ mpc = "close_browser"
  /\ CloseCall("browser", browser, "exit")

\* trial2.py lines 250-275: the browser, the context and the page
T2_Setup ==
  /\ impl = "trial2" /\ mpc = "start"
  /\ \E got \in 0..3 :
       /\ Acquire(got)
       /\ IF got = 3
          THEN steps' = Append(steps, "initialize") /\ mpc' = "cookies"
          ELSE UNCHANGED steps /\ mpc' = "t2_except"
  /\ UNCHANGED <<is_logged_in, scrapeVars, loginVars, scrollVars, toolVars, cookieVars,
                 closes, escaped>>

\* trial2.py lines 276-283: the cookie file must exist; the loader is called
T2_LoadCookies ==
  /\ impl = "trial2" /\ mpc = "cookies"
  /\ IF cookie_src.kind = "missing"
     THEN mpc' = "t2_fnf" /\ UNCHANGED cpc
     ELSE cpc' = "start" /\ mpc' = "cookies_wait"
  /\ UNCHANGED <<is_logged_in, scrapeVars, loginVars, scrollVars, toolVars, cookieRest,
                 browser, context, page, steps, closes, escaped>>

\* trial2.py lines 281-285: the loader has returned; the login check is called
T2_CheckLogin ==
  /\ impl = "trial2" /\ mpc = "cookies_wait" /\ cpc = "done"
  /\ IF cret = "True"
     THEN /\ steps' = Append(steps, "load_cookies")
          /\ lpc' = "start" /\ mpc' = "login_wait"
     ELSE /\ mpc' = "t2_except" /\ UNCHANGED <<steps, lpc>>
  /\ UNCHANGED <<is_logged_in, scrapeVars, loginRest, scrollVars, toolVars, cookieVars,
                 browser, context, page, closes, escaped>>

\* trial2.py lines 287-413: the login check has returned; when it returned
\* True the profile page is loaded and read, its markup is saved, and every
\* exception of that is handled with a snapshot that may fail
T2_Profile ==
  /\ impl = "trial2" /\ mpc = "login_wait" /\ lpc = "done"
  /\ IF lret = "True"
     THEN /\ steps' = steps \o <<"verify_login", "profile">>
          /\ \/ save_html("playwright_target_profile_page.html")
             \/ save_html("playwright_profile_timeout_page.html")
             \/ save_html("playwright_profile_playwright_error_page.html")
             \/ save_html("playwright_profile_unexpected_error_page.html")
             \/ UNCHANGED saved
     ELSE UNCHANGED <<steps, saved>>
  /\ mpc' = "finally"
  /\ LoginReturned
  /\ UNCHANGED <<is_logged_in, scrapeVars, scrollVars, toolVars, cookieVars,
                 browser, context, page, closes, escaped>>

\* trial2.py lines 415-423: the handlers of the try block
T2_Except ==
  /\ impl = "trial2" /\ mpc \in {"t2_fnf", "t2_except"}
  /\ IF mpc = "t2_except" /\ page = "open"
     THEN \/ save_html("playwright_main_exception_page.html")
          \/ UNCHANGED saved
     ELSE UNCHANGED saved
  /\ mpc' = "finally"
  /\ UNCHANGED <<is_logged_in, scrapeVars, scrollVars, toolVars, cookieVars,
                 impl, lpc, lret, current_url, wait_time, elapsed, url, events,
                 polls, puzzle_polls,
                 browser, context, page, steps, closes, escaped>>

\* the cleanup of main_playwright: one of its three close calls; an
\* exception of the call is logged
CleanupCall(name, res, next) ==
  /\ mpc' = next
  /\ IF res # "open"
     THEN UNCHANGED <<browser, context, page, closes>>
     ELSE /\ closes' = Append(closes, name)
          /\ \/ /\ browser' = IF name = "browser" THEN "closed" ELSE browser
                /\ context' = IF name = "context" THEN "closed" ELSE context
                /\ page' = IF name = "page" THEN "closed" ELSE page
             \/ UNCHANGED <<browser, context, page>>
  /\ UNCHANGED <<is_logged_in, scrapeVars, loginVars, scrollVars, toolVars, cookieVars,
                 steps, escaped>>

\* trial2.py lines 427-429
Cleanup_Page ==
  /\ impl = "trial2" /\ mpc = "finally"
  /\ CleanupCall("page", page, "close_context")
\* trial2.py lines 430-432
Cleanup_Context ==
  /\ impl = "trial2" /\ mpc = "close_context"
  /\ CleanupCall("context", context, "close_browser")
\* trial2.py lines 433-435
Cleanup_Browser ==
  /\ impl = "trial2" /\ mpc = "close_browser"
  /\ CleanupCall("browser", browser, "exit")

\* a run of main or of main_playwright, or a call of search_posts on an
\* object that no login check has run on (main.py line 35)
InitRun ==
  /\ is_logged_in = FALSE
  /\ ScrapeInit
  /\ ToolsOff
  /\ sticky \in BOOLEAN
  /\ lpc = "off" /\ lret = "none"
  /\ current_url = <<>> /\ url = <<>> /\ wait_time = 0 /\ elapsed = 0
  /\ saved = {} /\ events = {} /\ polls = 0 /\ puzzle_polls = 0
  /\ ScrollOff
  /\ cret = "none" /\ jar = <<>> /\ add_calls = <<>> /\ cpc = "off"
  /\ browser = "none" /\ context = "none" /\ page = "none"
  /\ steps = <<>> /\ closes = <<>> /\ escaped = FALSE
  /\ \/ /\ mpc = "start" /\ pc = "off"
        /\ cimpl \in {"main", "trial2"}
        /\ cookie_src \in RunCookieSources
     \/ /\ mpc = "direct" /\ pc = "start"
        /\ cimpl = "main" /\ cookie_src = [kind |-> "missing"]
  /\ impl = cimpl

NextRun ==
  \/ Main_Initialize
  \/ Main_LoadCookies
  \/ Main_VerifyLogin
  \/ Main_SearchPosts
  \/ Main_AfterSearch
  \/ Close_Page
  \/ Close_Context
  \/ Close_Browser
  \/ T2_Setup
  \/ T2_LoadCookies
  \/ T2_CheckLogin
  \/ T2_Profile
  \/ T2_Except
  \/ Cleanup_Page
  \/ Cleanup_Context
  \/ Cleanup_Browser
  \/ load_cookies
  \/ load_cookies_playwright
  \/ VL_Goto
  \/ VL_PuzzleCheck
  \/ VL_PuzzleLoop
  \/ VL_PuzzleAfter
  \/ VL_SignInAs
  \/ VL_UrlCheck
  \/ VL_ChallengeLoop
  \/ VL_Indicator
  \/ VL_Except
  \/ CL_Goto
  \/ CL_SignInAs
  \/ CL_UrlCheck
  \/ CL_Indicator
  \/ CL_Except
  \/ SearchPosts_Begin
  \/ Keyword_Navigate
  \/ Keyword_Except
  \/ Loop
  \/ Container_Read
  \/ Container_After
  \/ Finish
  \/ PP_Start
  \/ PP_Click
  \/ PP_WaitModal
  \/ PP_WaitProfiles
  \/ PP_CloseOnTimeout
  \/ PP_Fields
  \/ PP_Likers
  \/ PP_Close1
  \/ PP_Comments
  \/ PP_LoadMore
  \/ PP_SecondPass
  \/ PP_Write
  \/ PP_Finally
  \/ PP_Except

SpecRun == InitRun /\ [][NextRun]_vars

(***************************************************************************)
(* A run of clean-json.py on one file of posts/json, and a second run on   *)
(* the file the first one wrote.                                           *)
(***************************************************************************)
\* the characters of the strings of a file
NameAlphabet == {"a", "b", " ", "|", Bullet}
NameStrings == SeqsUpTo(NameAlphabet, MaxNameLen)

\* what json.load gives (line 40): a record that holds the string s under
\* the key name and under other keys, at the top, in a mapping, in a
\* mapping of a list and as an element of a list, next to values that are
\* no strings
RawRecord(s) ==
  JDict([name |-> JStr(s),
         title |-> JStr(s),
         count |-> JInt(1),
         image |-> JNone,
         author |-> JDict([name |-> JStr(s), title |-> JStr(s)]),
         types |-> JList(<<JStr(s)>>),
         comments |-> JList(<<JDict([name |-> JStr(s),
                                     content |-> JStr(s)])>>)])

InitClean ==
  /\ is_logged_in = FALSE
  /\ pc = "off"
  /\ ScrapeInit
  /\ sticky = FALSE
  /\ LoginOff
  /\ ScrollOff
  /\ CookiesOff
  /\ RunOff
  /\ kpc = "start"
  /\ \E s \in NameStrings : raw = RawRecord(s)
  /\ cleaned = JNone /\ recleaned = JNone
  /\ GraphOff

notClean == <<is_logged_in, scrapeVars, loginVars, scrollVars, cookieVars,
              runVars, graphVars>>

\* lines 38-44: the file is read, cleaned and written to posts/clean
Clean_First ==
  /\ kpc = "start"
  /\ cleaned' = clean_dict(raw)
  /\ kpc' = "once"
  /\ UNCHANGED <<notClean, raw, recleaned>>

\* lines 38-44 again, on the file written
Clean_Second ==
  /\ kpc = "once"
  /\ recleaned' = clean_dict(cleaned)
  /\ kpc' = "twice"
  /\ UNCHANGED <<notClean, raw, cleaned>>

NextClean ==
  \/ Clean_First
  \/ Clean_Second

SpecClean == InitClean /\ [][NextClean]_vars

(***************************************************************************)
(* streamlit_knowledge_graph.py: build_graph over the files of posts/clean.*)
(***************************************************************************)
\* line 14: the least value of the slider "Max posts to load"
SliderMin == 10

\* dict.get(key, default)
GetOr(d, key, default) == IF key \in DOMAIN d.v THEN d.v[key] ELSE default

\* the empty dict {}
EmptyDict == JDict(<<>>)

\* lines 21-24
get_profile_url(author) ==
  IF author.t = "dict" THEN GetOr(author, "profile_url", JNone) ELSE JNone

\* G.add_node(n, group=...): a node that exists has its attribute replaced
add_node(g, n, group) ==
  [g EXCEPT !.nodes = [m \in DOMAIN g.nodes \cup {n} |->
                         IF m = n THEN group ELSE g.nodes[m]]]

\* G.add_edge(u, v, label=..., color=...): one more edge, parallel edges
\* kept; an end that is no node yet becomes a node without attributes
add_edge(g, u, v, label, color) ==
  [nodes |-> [m \in DOMAIN g.nodes \cup {u, v} |->
                IF m \in DOMAIN g.nodes THEN g.nodes[m] ELSE "none"],
   edges |-> Append(g.edges,
                    [src |-> u, dst |-> v, label |-> label, color |-> color])]

\* faulty variant: the like edge points from the post author to the liker
RECURSIVE add_like_edges_Reversed(_, _, _)
add_like_edges_Reversed(g, post_author_url, ls) ==
  IF ls = <<>> THEN g
  ELSE LET liker == Head(ls)
           liker_url == GetOr(liker, "url", JNone)
           g1 == IF /\ Truthy(liker_url) /\ Truthy(post_author_url)
                    /\ liker_url # post_author_url
                 THEN add_edge(add_node(g, liker_url.v, "liker"),
                               post_author_url.v, liker_url.v,
                               "like", "#00ff99")
                 ELSE g
       IN add_like_edges_Reversed(g1, post_author_url, Tail(ls))

\* lines 26-31
RECURSIVE add_like_edges(_, _, _)
add_like_edges(g, post_author_url, ls) ==
  IF ls = <<>> THEN g
  ELSE LET liker == Head(ls)
           liker_url == GetOr(liker, "url", JNone)
           g1 == IF /\ Truthy(liker_url) /\ Truthy(post_author_url)
                    /\ liker_url # post_author_url
                 THEN add_edge(add_node(g, liker_url.v, "liker"),
                               liker_url.v, post_author_url.v,
                               "like", "#00ff99")
                 ELSE g
       IN add_like_edges(g1, post_author_url, Tail(ls))

\* lines 43-49: the replies of one comment
RECURSIVE add_reply_edges(_, _, _)
add_reply_edges(g, commenter_url, rs) ==
  IF rs = <<>> THEN g
  ELSE LET reply == Head(rs)
           replier == GetOr(reply, "author", EmptyDict)
           replier_url == get_profile_url(replier)
           g1 == IF /\ Truthy(replier_url) /\ Truthy(commenter_url)
                    /\ replier_url # commenter_url
                 THEN add_edge(add_node(g, replier_url.v, "replier"),
                               replier_url.v, commenter_url.v,
                               "comment", "#ff00ff")
                 ELSE g
       IN add_reply_edges(g1, commenter_url, Tail(rs))

\* faulty variant: the commenter is not compared with the post author
RECURSIVE add_comment_edges_NoSelfTest(_, _, _, _)
add_comment_edges_NoSelfTest(g, post_author_url, cs, with_replies) ==
  IF cs = <<>> THEN g
  ELSE LET comment == Head(cs)
           commenter == GetOr(comment, "author", EmptyDict)
           commenter_url == get_profile_url(commenter)
           g1 == IF Truthy(commenter_url) /\ Truthy(post_author_url)
                 THEN add_edge(add_node(g, commenter_url.v, "commenter"),
                               commenter_url.v, post_author_url.v,
                               "comment", "#00bfff")
                 ELSE g
           g2 == IF with_replies
                 THEN add_reply_edges(g1, commenter_url,
                                      GetOr(comment, "replies", JList(<<>>)).v)
                 ELSE g1
       IN add_comment_edges_NoSelfTest(g2, post_author_url, Tail(cs),
                                       with_replies)

\* lines 33-49
RECURSIVE add_comment_edges(_, _, _, _)
add_comment_edges(g, post_author_url, cs, with_replies) ==
  IF cs = <<>> THEN g
  ELSE LET comment == Head(cs)
           commenter == GetOr(comment, "author", EmptyDict)
           commenter_url == get_profile_url(commenter)
           g1 == IF /\ Truthy(commenter_url) /\ Truthy(post_author_url)
                    /\ commenter_url # post_author_url
                 THEN add_edge(add_node(g, commenter_url.v, "commenter"),
                               commenter_url.v, post_author_url.v,
                               "comment", "#00bfff")
                 ELSE g
           g2 == IF with_replies
                 THEN add_reply_edges(g1, commenter_url,
                                      GetOr(comment, "replies", JList(<<>>)).v)
                 ELSE g1
       IN add_comment_edges(g2, post_author_url, Tail(cs), with_replies)

\* whether the body of the loop raises on the record rec: get is called on
\* a liker, a comment or a reply that is no mapping (AttributeError)
BodyRaises(rec, likes, cmts, reps) ==
  LET engagement == GetOr(rec, "engagement", EmptyDict)
      ls == GetOr(engagement, "likers", JList(<<>>)).v
      cs == GetOr(engagement, "comments", JList(<<>>)).v
  IN \/ likes /\ \E i \in DOMAIN ls : ls[i].t # "dict"
     \/ cmts /\ \E i \in DOMAIN cs :
          \/ cs[i].t # "dict"
          \/ /\ reps
             /\ \E k \in DOMAIN GetOr(cs[i], "replies", JList(<<>>)).v :
                  GetOr(cs[i], "replies", JList(<<>>)).v[k].t # "dict"

\* lines 59-68: the body of the loop for one record that does not raise
AddPost(g, rec, likes, cmts, reps) ==
  LET author == GetOr(rec, "author", EmptyDict)
      post_author_url == get_profile_url(author)
      engagement == GetOr(rec, "engagement", EmptyDict)
      g1 == add_node(g, post_author_url.v, "author")
      g2 == IF likes
            THEN add_like_edges(g1, post_author_url,
                                GetOr(engagement, "likers", JList(<<>>)).v)
            ELSE g1
  IN IF ~Truthy(post_author_url) THEN g
     ELSE IF cmts
          THEN add_comment_edges(g2, post_author_url,
                                 GetOr(engagement, "comments", JList(<<>>)).v,
                                 reps)
          ELSE g2

\* the profile URLs of the cleaned records
ProfileUrl(u) == JStr(<<u>>)
\* an author block: with a profile_url, or ("none") without one
AuthorBlock(u) ==
  IF u = "none" THEN JDict([name |-> JStr(<<"n">>)])
  ELSE JDict([name |-> JStr(<<"n">>), profile_url |-> ProfileUrl(u)])
LikerRec(u) == JDict([name |-> JStr(<<"n">>), url |-> ProfileUrl(u)])
ReplyRec(u) == JDict([author |-> AuthorBlock(u), content |-> JStr(<<"r">>)])
CommentRec(u, rs) ==
  JDict([author |-> AuthorBlock(u), content |-> JStr(<<"c">>),
         replies |-> JList(rs)])
PostRec(a, ls, cs) ==
  JDict([author |-> AuthorBlock(a),
         engagement |-> JDict([likers |-> JList(ls), comments |-> JList(cs)])])

\* the records a file of posts/clean can hold: a post of A, of B or of an
\* author without profile URL; no liker, or A or B; no comment, or one of A
\* or C with no reply, a reply of C or D, or the null entry that
\* extract_comment_data leaves for a reply it could not read
GraphRecords ==
  {PostRec(a, ls, cs) :
     a \in {"A", "B", "none"},
     ls \in {<<>>, <<LikerRec("A")>>, <<LikerRec("B")>>},
     cs \in {<<>>} \cup
            {<<CommentRec(c, rs)>> :
               c \in {"A", "C"},
               rs \in {<<>>, <<ReplyRec("C")>>, <<ReplyRec("D")>>, <<JNone>>}}}

InitGraph ==
  /\ is_logged_in = FALSE
  /\ pc = "off"
  /\ ScrapeInit
  /\ sticky = FALSE
  /\ LoginOff
  /\ ScrollOff
  /\ CookiesOff
  /\ RunOff
  /\ CleanOff
  /\ gpc = "start"
  /\ show_likes \in BOOLEAN /\ show_comments \in BOOLEAN
  /\ show_replies \in BOOLEAN
  /\ unread \in 0..MaxPosts
  /\ data_read = JNone /\ G = EmptyGraph /\ n_read = 0

notGraph == <<is_logged_in, scrapeVars, loginVars, scrollVars, cookieVars,
              runVars, cleanVars>>

\* lines 53-55: at most max_posts files are kept, the graph is empty
Build_Begin ==
  /\ gpc = "start"
  /\ \E max_posts \in {SliderMin} :
       unread' = IF unread > max_posts THEN max_posts ELSE unread
  /\ G' = EmptyGraph
  /\ gpc' = "loop"
  /\ UNCHANGED <<notGraph, show_likes, show_comments, show_replies,
                 data_read, n_read>>

\* lines 56-68: one file is read and its record is added to the graph; an
\* exception of the body leaves build_graph
Build_File ==
  /\ gpc = "loop" /\ unread > 0
  /\ \E rec \in GraphRecords :
       /\ data_read' = rec
       /\ IF /\ Truthy(get_profile_url(GetOr(rec, "author", EmptyDict)))
             /\ BodyRaises(rec, show_likes, show_comments, show_replies)
          THEN gpc' = "raised" /\ G' = G
          ELSE /\ gpc' = gpc
               /\ G' = AddPost(G, rec, show_likes, show_comments,
                               show_replies)
  /\ unread' = unread - 1
  /\ n_read' = n_read + 1
  /\ UNCHANGED <<notGraph, show_likes, show_comments, show_replies>>

\* line 69
Build_Return ==
  /\ gpc = "loop" /\ unread = 0
  /\ gpc' = "done"
  /\ UNCHANGED <<notGraph, show_likes, show_comments, show_replies, unread,
                 data_read, G, n_read>>

NextGraph ==
  \/ Build_Begin
  \/ Build_File
  \/ Build_Return

SpecGraph == InitGraph /\ [][NextGraph]_vars

(***************************************************************************)
(* Claims about the scrape (checked under Spec).                           *)
(***************************************************************************)
CountsMatch(rec) ==
  LET e == rec.v["engagement"].v
  IN /\ e["total_likers"].v = Len(e["likers"].v)
     /\ e["total_comments"].v = Len(e["comments"].v)

\* C1: every persisted post record has total_likers = len(likers) and
\* total_comments = len(comments), in posts/json and in the cleaned copy
C1_CountsMatchLists ==
  /\ \A f \in DOMAIN files : CountsMatch(files[f])
  /\ \A f \in DOMAIN clean_files : CountsMatch(clean_files[f])

\* C1 witness: a cleaned record with a liker and several comments
C1_Witness ==
  \E f \in DOMAIN clean_files :
    /\ Len(clean_files[f].v["engagement"].v["likers"].v) >= 1
    /\ Len(clean_files[f].v["engagement"].v["comments"].v) >= 2
    /\ clean_files[f] # files[f]

\* the first container of the pass that shows identifier id
FirstOccurrence(id) ==
  CHOOSE i \in 1..Len(feed) :
    feed[i] = id /\ \A k \in 1..Len(feed) : feed[k] = id => i <= k

\* C2: in one keyword pass, of the containers that show the same identifier
\* only the first one is dispatched to process_post_html
C2_OnlyFirstOccurrenceDispatched ==
  \A i \in DOMAIN dispatched :
    dispatched[i].j + 1 = FirstOccurrence(dispatched[i].id)

\* the elements of a record's comment list that come from comment entity c
ElementsOf(rec, c) ==
  LET cs == rec.v["engagement"].v["comments"].v
  IN {i \in DOMAIN cs : Strip(cs[i].v["content"].v) = Strip(c.content)}

\* C3: no comment of the page contributes more than one element to
\* engagement.comments
C3_EachCommentOnce ==
  \A f \in DOMAIN files : \A c \in {Comment1, Comment2} :
    Cardinality(ElementsOf(files[f], c)) <= 1

\* C4: search_posts returns exactly the distinct post URLs of the records
\* process_post_html returned, each once
C4_ReturnsCollectedUrls ==
  (pc = "done" /\ is_logged_in) =>
    /\ {ret.v[i].v : i \in DOMAIN ret.v} = returned_urls
    /\ Len(ret.v) = Cardinality(returned_urls)

\* the deviations after which process_post_html has no record to return
WholePostFaults ==
  {"container", "no_reactions", "click", "modal", "profiles", "field",
   "modal_scroll", "write"}

\* C5: a failed post returns no record and nothing is raised out of
\* search_posts; the container loop visits every container of the keyword,
\* the keyword handler is reached only from before the loop, and every
\* keyword is started
C5_FailuresAreContained ==
  /\ pc # "raised"
  /\ (pc = "after_pp" /\ pp_faults \cap WholePostFaults # {}) =>
       post_data = JNone
  /\ pc = "kw_except" => total_containers = -1
  /\ pc = "loop" => (j <= total_containers /\ visited = 0..(j - 1))
  /\ (pc \in {"finish", "done"} /\ is_logged_in) =>
       kw_visited = 1..Len(Keywords)

\* C5 witness: a dispatched post failed and the loop is at a later container
C5_Witness ==
  /\ pc = "container" /\ j >= 1
  /\ dispatched # <<>> /\ succeeded = {}

\* C6: a field of the post that cannot be read is defaulted, the record is
\* still returned and written
C6_FieldFailureKeepsPost ==
  (pc = "after_pp" /\ pp_faults = {"field"}) =>
    /\ post_data # JNone
    /\ FileName(Keywords[kw], j + 1) \in DOMAIN files

\* C7: the file of every post whose call returned a record exists from the
\* return on, hence while any later container is worked on
C7_EarlierFilesWritten ==
  \A n \in succeeded : n \in DOMAIN files /\ files[n].v["post_number"].v = n[2]

\* C7 witness: a later container is being extracted after an earlier one of
\* the same pass returned a record
C7_Witness ==
  /\ pc = "pp_fields"
  /\ \E n \in succeeded : n[1] = Keywords[kw] /\ n[2] < j + 1

\* C8 as stated: close_modal is invoked after the click and before the
\* return, a close precedes the click on the comments control, and no modal
\* is open when the next container is processed
C8_NoModalLeftOpen ==
  /\ (pc = "after_pp" /\ clicked) => close_calls >= 1
  /\ comments_clicked => close_calls >= 1
  /\ pc = "container" => modal = "closed"

\* C8 amended: close_modal is invoked after the click and before the return,
\* a close precedes the click on the comments control, and a modal still
\* open at the return is one the last close_modal failed to close
C8_CloseAlwaysAttempted ==
  /\ (pc = "after_pp" /\ clicked) => close_calls >= 1
  /\ comments_clicked => close_calls >= 1
  /\ (pc = "after_pp" /\ clicked /\ modal # "closed") => close_failed

\* C8 witness: the function returned with the modal open after two closes
C8_Witness ==
  pc = "after_pp" /\ clicked /\ modal = "stuck" /\ close_calls >= 2

(***************************************************************************)
(* Claims about the login check (checked under SpecLogin).                 *)
(***************************************************************************)
\* C9: on a challenge address the check polls the address; a feed address
\* seen within the bound leads to the wait for the indicator; when the bound
\* elapses the check returns False and does not wait for the indicator
C9_ChallengeWaitFails ==
  /\ ("challenge" \in events /\ lpc = "done") => polls >= 1
  /\ ("feed_seen" \in events /\ lpc = "done") => "indicator_checked" \in events
  /\ "wait_elapsed" \in events =>
       /\ "indicator_checked" \notin events
       /\ lpc = "done" => lret = "False"

\* C10: the check returns True, and verify_login sets is_logged_in, only
\* after the indicator was seen; an indicator not found, an error of the
\* probe and a failed navigation give False; nothing is raised
C10_TrueOnlyWithIndicator ==
  /\ lpc # "raised"
  /\ lret = "True" => "marker_seen" \in events
  /\ is_logged_in => ("marker_seen" \in events /\ lret = "True")
  /\ (impl = "main" /\ lret = "True") => is_logged_in
  /\ (lpc = "done" /\ events \cap {"marker_timeout", "probe_error",
                                   "nav_timeout", "nav_error"} # {}) =>
       lret = "False"
  /\ lpc = "done" <=> lret # "none"

\* C10 witness: verify_login returned True after the challenge wait
C10_Witness ==
  /\ impl = "main" /\ lpc = "done" /\ lret = "True" /\ is_logged_in
  /\ "feed_seen" \in events

\* C11: every return of False by the login check is preceded by an attempt
\* to write the markup of the page to a debug file (the attempt itself may
\* fail, which is caught)
C11_FailureLeavesSnapshot ==
  (lpc = "done" /\ lret = "False") =>
    (saved # {} \/ "snapshot_failed" \in events)

C13_ScrollLoopTerminates ==
  /\ [](iterations <= max_attempts /\ scroll_attempts <= iterations)
  /\ <>(spc \in {"done", "raised"})
  /\ [](stable => (spc = "done" /\ exit_by = "stable"))
  /\ [](exit_by = "stable" =>
          (stable /\ new_height = last_height /\ final_height = new_height))
  /\ [](exit_by = "ceiling" =>
          (~stable /\ scroll_attempts = max_attempts))

\* C13 witness: the loop ended at the stabilisation check after some growth
\* and before the ceiling
C13_Witness ==
  /\ spc = "done" /\ exit_by = "stable"
  /\ scroll_attempts >= 1 /\ iterations < max_attempts

\* the calls of main that must have succeeded, in their order
SetupSteps == <<"initialize", "load_cookies", "verify_login", "search_posts">>

\* some work of search_posts or process_post_html has been done
Scraping ==
  \/ pc \notin {"off", "start", "done"}
  \/ kw_visited # {} \/ feed # <<>> \/ clicked \/ files # <<>>

\* C14: in a run of main, search_posts is called, and pages are loaded and
\* posts expanded, only after initialize, load_cookies and verify_login
\* succeeded in this order; a run in which one of them failed ends without
\* scraping; search_posts on a session that is not logged in returns an
\* empty list and loads no page
C14_ScrapeOnlyAfterSetup ==
  /\ impl = "main" =>
       \E n \in 0..Len(SetupSteps) : steps = SubSeq(SetupSteps, 1, n)
  /\ (impl = "main" /\ mpc # "direct" /\ (Scraping \/ pc # "off")) =>
       /\ steps = SetupSteps
       /\ is_logged_in /\ cret = "True" /\ add_calls # <<>>
       /\ mpc = "search_wait" =>
            (browser = "open" /\ context = "open" /\ page = "open")
  /\ (impl = "main" /\ mpc = "exit" /\ steps # SetupSteps) =>
       (pc = "off" /\ ~Scraping)
  /\ ~is_logged_in =>
       (~Scraping /\ (pc = "done" => ret = JList(<<>>)))

\* C14 witness: a post is being expanded in a run of main
C14_Witness ==
  /\ mpc = "search_wait" /\ pc = "pp_fields" /\ steps = SetupSteps

\* the close calls that teardown owes: one for each of the page, the
\* context and the browser that was made, in this order
ClosesOwed ==
  LET made(r) == \/ r = "page" /\ page # "none"
                 \/ r = "context" /\ context # "none"
                 \/ r = "browser" /\ browser # "none"
  IN SelectSeq(<<"page", "context", "browser">>, made)

\* C15: when a run has ended, whatever its path, teardown has attempted to
\* close the page, then the context, then the browser, also when one of the
\* close calls failed
C15_TeardownAttemptsAll ==
  mpc = "exit" => closes = ClosesOwed

(***************************************************************************)
(* Claims about the cookie loader (checked under SpecCookies).             *)
(***************************************************************************)
GoodCookie(c) ==
  /\ c.t = "dict"
  /\ "domain" \in DOMAIN c.v /\ c.v["domain"].t = "str"
  /\ Contains(c.v["domain"].v, LinkedInDomain)
  /\ "sameSite" \in DOMAIN c.v
  /\ c.v["sameSite"] \in {Tok("Strict"), Tok("Lax"), Tok("None")}

\* C16: every cookie passed to add_cookies, and so every cookie of the
\* context, has a domain that contains .linkedin.com and a sameSite value
\* among Strict, Lax and None
C16_OnlyLinkedInCookies ==
  /\ \A i \in DOMAIN add_calls : \A k \in DOMAIN add_calls[i] :
       GoodCookie(add_calls[i][k])
  /\ \A k \in DOMAIN jar : GoodCookie(jar[k])

\* C16 witness: a list with a foreign cookie or one with an unknown sameSite
\* value was loaded and a cookie of it was added
C16_Witness ==
  /\ cret = "True" /\ jar # <<>>
  /\ \E k \in DOMAIN cookie_src.content.v :
       ~GoodCookie(cookie_src.content.v[k])

\* the entries of the source that pass the filter of the loader that runs
Survives(c) ==
  /\ c.t = "dict"
  /\ "domain" \in DOMAIN c.v /\ c.v["domain"].t = "str"
  /\ Contains(c.v["domain"].v, LinkedInDomain)
  /\ cimpl = "trial2" => {"name", "value"} \subseteq DOMAIN c.v

\* the sameSite value the specification gives to an entry
NormalSameSite(c) ==
  IF "sameSite" \in DOMAIN c.v /\
     c.v["sameSite"] \in {Tok("Strict"), Tok("Lax"), Tok("None")}
  THEN c.v["sameSite"] ELSE Tok("Lax")

\* C17: the cookie injected for an entry has the sameSite value of the entry
\* when that is Strict, Lax or None, and Lax when the entry has no sameSite
\* value or another one
C17_SameSiteNormalised ==
  \A i \in DOMAIN add_calls :
    LET kept == SelectSeq(cookie_src.content.v, Survives)
    IN /\ Len(add_calls[i]) = Len(kept)
       /\ \A k \in DOMAIN kept :
            add_calls[i][k].v["sameSite"] = NormalSameSite(kept[k])

\* the source gives no cookie to inject: no file, no JSON, no list, or a
\* list of which no entry passes the filter
NothingToLoad ==
  \/ cookie_src.kind \in {"missing", "garbage"}
  \/ cookie_src.kind = "inline" /\ cimpl = "main"
  \/ cookie_src.kind \in {"file", "inline"} /\
       \/ cookie_src.content.t # "list"
       \/ SelectSeq(cookie_src.content.v, Survives) = <<>>

\* C18: the loader raises nothing; with nothing to load it returns False and
\* makes no add_cookies call; it returns True only after exactly one
\* add_cookies call, made with a non-empty list
C18_LoaderFailsCleanly ==
  /\ cpc \in {"start", "done"}
  /\ cpc = "done" =>
       /\ cret \in {"True", "False"}
       /\ NothingToLoad => (cret = "False" /\ add_calls = <<>> /\ jar = <<>>)
       /\ cret = "True" => (Len(add_calls) = 1 /\ add_calls[1] # <<>>)

\* the reply elements of the comment elements of a written record
RepliesOf(rec) ==
  LET cs == rec.v["engagement"].v["comments"].v
  IN UNION {{cs[i].v["replies"].v[k] : k \in DOMAIN cs[i].v["replies"].v} :
              i \in DOMAIN cs}

\* a reply element that is a record and has no replies of its own
FlatReply(r) ==
  /\ r.t = "dict"
  /\ "replies" \in DOMAIN r.v => r.v["replies"].v = <<>>

\* C19: in every written record each element of a comment's replies list is
\* a reply record whose own replies list is empty or absent
C19_RepliesOneLevel ==
  \A f \in DOMAIN files : \A r \in RepliesOf(files[f]) : FlatReply(r)

\* C20: the loop that clicks the "load more comments" control ends, also on
\* a page whose control stays visible after every click
C20_LoadMoreLoopEnds ==
  (pc = "pp_load_more") ~> (pc # "pp_load_more")

(***************************************************************************)
(* Claims about clean-json.py (checked under SpecClean).                   *)
(***************************************************************************)
\* the string the record read holds
RawName == raw.v["name"].v

\* C21: cleaning is idempotent: the name of the record cleaned twice is the
\* name of the record cleaned once, and so is the whole record
C21_CleaningIdempotent ==
  kpc = "twice" =>
    /\ recleaned.v["name"] = cleaned.v["name"]
    /\ recleaned = cleaned

\* the separators after which clean_name drops the rest of a name
Separators == {<<" ", Bullet, " ">>, <<"|">>}

\* the lengths k for which the string read is its first k characters, all of
\* them name characters, twice, then a separator, then any text
DoubledThenSep ==
  {k \in 1..Len(RawName) :
     /\ \A i \in 1..k : RawName[i] \in NameChars
     /\ OccursAt(RawName, SubSeq(RawName, 1, k), k + 1)
     /\ \E sep \in Separators : OccursAt(RawName, sep, 2 * k + 1)}

\* a string without leading, trailing or repeated whitespace
Normalised(x) == Strip(CollapseWs(x)) = x

CleanedFieldStrings ==
  {cleaned.v["title"].v, cleaned.v["author"].v["title"].v,
   cleaned.v["comments"].v[1].v["content"].v}

\* the strings of the cleaned record that are elements of a list
CleanedListStrings == {cleaned.v["types"].v[i].v : i \in DOMAIN cleaned.v["types"].v}

\* C23: after clean_dict every string that is not a name field, elements of
\* lists included, is the string read with its whitespace collapsed and
\* stripped
C23_OtherStringsCollapsed ==
  kpc = "once" =>
    \A x \in CleanedFieldStrings \cup CleanedListStrings :
      x = Strip(CollapseWs(RawName))

\* the name read, whitespace-collapsed
CollapsedName == Strip(CollapseWs(RawName))

\* a string that is some string followed by the same string
WhollyDoubled(x) ==
  \E k \in 1..Len(x) : Len(x) = 2 * k /\ SubSeq(x, k + 1, 2 * k) = SubSeq(x, 1, k)

\* C30: a name without separator that is not a string followed by itself is
\* returned whitespace-collapsed and otherwise unchanged
C30_OnlyWholeNameDeduplicated ==
  (/\ kpc = "once"
   /\ \A sep \in Separators : ~Contains(RawName, sep) /\ ~Contains(CollapsedName, sep)
   /\ ~WhollyDoubled(CollapsedName))
    => cleaned.v["name"].v = CollapsedName

(***************************************************************************)
(* Claims about build_graph (checked under SpecGraph).                     *)
(***************************************************************************)
\* the record of the example: a post of A liked by B, with one comment of C
\* that has one reply of D
ExampleRecord ==
  PostRec("A", <<LikerRec("B")>>, <<CommentRec("C", <<ReplyRec("D")>>)>>)

ExampleRun ==
  /\ gpc = "done" /\ n_read = 1 /\ data_read = ExampleRecord
  /\ show_likes /\ show_comments /\ show_replies

ExampleGraph ==
  /\ DOMAIN G.nodes = {<<"A">>, <<"B">>, <<"C">>, <<"D">>}
  /\ G.nodes[<<"A">>] = "author" /\ G.nodes[<<"B">>] = "liker"
  /\ G.nodes[<<"C">>] = "commenter" /\ G.nodes[<<"D">>] = "replier"
  /\ Len(G.edges) = 3
  /\ {<<e.src, e.dst, e.label>> : e \in Range(G.edges)} =
       {<< <<"B">>, <<"A">>, "like">>, << <<"C">>, <<"A">>, "comment">>,
        << <<"D">>, <<"C">>, "comment">>}

\* the profile URL of an author block, <<>> when it has none
UrlOf(author) ==
  IF get_profile_url(author).t = "str" THEN get_profile_url(author).v
  ELSE <<>>

\* the edges the step has added
NewEdges == SubSeq(G'.edges, Len(G.edges) + 1, Len(G'.edges))

\* the edge e leads from an actor of the record rec to the one the actor
\* reacted to: liker -> post author, commenter -> post author, replier ->
\* commenter of the comment replied to
Directed(e, rec) ==
  LET pa == UrlOf(rec.v["author"])
      ls == rec.v["engagement"].v["likers"].v
      cs == rec.v["engagement"].v["comments"].v
  IN CASE e.color = "#00ff99" ->
            /\ e.label = "like" /\ e.dst = pa
            /\ \E i \in DOMAIN ls : ls[i].v["url"].v = e.src
       [] e.color = "#00bfff" ->
            /\ e.label = "comment" /\ e.dst = pa
            /\ \E i \in DOMAIN cs : UrlOf(cs[i].v["author"]) = e.src
       [] e.color = "#ff00ff" ->
            /\ e.label = "comment"
            /\ \E i \in DOMAIN cs :
                 /\ UrlOf(cs[i].v["author"]) = e.dst
                 /\ \E k \in DOMAIN cs[i].v["replies"].v :
                      UrlOf(cs[i].v["replies"].v[k].v["author"]) = e.src
       [] OTHER -> FALSE

\* C24: the example record alone yields the nodes A:author, B:liker,
\* C:commenter, D:replier and the edges B->A like, C->A comment, D->C
\* comment; and every edge added for a record leads liker -> post author,
\* commenter -> post author or replier -> parent commenter
C24_EdgesFollowEngagement ==
  /\ [](ExampleRun => ExampleGraph)
  /\ [][gpc' # "raised" =>
          \A i \in DOMAIN NewEdges : Directed(NewEdges[i], data_read')]_vars

C24_Witness == ExampleRun /\ ExampleGraph

\* the record rec holds no engagement but that of its author: every liker
\* and every commenter is the author, and no comment has a reply
OnlySelfEngagement(rec) ==
  LET pa == UrlOf(rec.v["author"])
      ls == rec.v["engagement"].v["likers"].v
      cs == rec.v["engagement"].v["comments"].v
  IN /\ pa # <<>>
     /\ \A i \in DOMAIN ls : ls[i].v["url"].v = pa
     /\ \A i \in DOMAIN cs :
          UrlOf(cs[i].v["author"]) = pa /\ cs[i].v["replies"].v = <<>>

\* C25: no edge leads from a node to itself, and a record in which the only
\* liker and commenter is the post author adds no edge and no node but the
\* author's
C25_NoSelfEdges ==
  /\ [](\A e \in Range(G.edges) : e.src # e.dst)
  /\ [][(/\ n_read' = n_read + 1 /\ gpc' # "raised"
          /\ OnlySelfEngagement(data_read')) =>
          /\ G'.edges = G.edges
          /\ DOMAIN G'.nodes =
               DOMAIN G.nodes \cup {UrlOf(data_read'.v["author"])}
          /\ G'.nodes[UrlOf(data_read'.v["author"])] = "author"]_vars

C25_Witness ==
  /\ n_read = 1 /\ show_likes /\ show_comments
  /\ data_read = PostRec("A", <<LikerRec("A")>>, <<CommentRec("A", <<>>)>>)
  /\ G = [nodes |-> (<<"A">> :> "author"), edges |-> <<>>]

\* C26: a node keeps the role tag of its first insertion: no step changes
\* the group of a node the graph already has
C26_FirstRoleKept ==
  [][gpc' # "raised" =>
       \A n \in DOMAIN G.nodes :
         n \in DOMAIN G'.nodes /\ G'.nodes[n] = G.nodes[n]]_vars

(***************************************************************************)
(* Claims about repeated login checks (checked under SpecLoginCalls).      *)
(***************************************************************************)
\* C27: whenever the most recent verify_login call returned False, the flag
\* is_logged_in is False
C27_FalseReturnClearsFlag ==
  (impl = "main" /\ lpc = "done" /\ lret = "False") => ~is_logged_in

(***************************************************************************)
(* More claims about the scrape (checked under Spec).                      *)
(***************************************************************************)
\* the file of the container process_post_html was called for
PostFile == FileName(Keywords[kw], j + 1)

WellFormedComment(c) ==
  c.t = "dict" /\ {"author", "content", "timestamp"} \subseteq DOMAIN c.v

\* C29: in every written record each element of engagement.comments and of
\* a comment's replies list is a comment record; none is a null entry
C29_NoNullEntries ==
  \A f \in DOMAIN files :
    /\ \A i \in DOMAIN files[f].v["engagement"].v["comments"].v :
         WellFormedComment(files[f].v["engagement"].v["comments"].v[i])
    /\ \A r \in RepliesOf(files[f]) : WellFormedComment(r)


====
